---- MODULE Spec2Model ----
(***************************************************************************)
(* A model of mikroplot's Window class (window.cpp, two revisions held in  *)
(* src/unnamed/part_000: the earlier one at lines 1-792, the later one at  *)
(* lines 794-1506).                                                        *)
(*                                                                         *)
(* Three specifications share the variables:                               *)
(*   Spec      the frame loop of the later revision: update(),             *)
(*             shouldClose(), screenshot(), the key callback and the key   *)
(*             queries, with GLFW's event delivery as steps inside polls;  *)
(*   SpecDraw  the drawing calls of the later revision, each applied to    *)
(*             an argument drawn in the initial state;                     *)
(*   SpecV1    shade() and drawSprite() of the earlier revision, applied   *)
(*             to a list of shader constants drawn in the initial state.   *)
(***************************************************************************)
EXTENDS Integers, Sequences, FiniteSets, TLC

(* ------------------------------ bounds -------------------------------- *)

\* Largest palette size tried (palettes of 0..MaxPalette entries).
MaxPalette == 2

\* Most events GLFW delivers inside one glfwPollEvents call.
MaxEvents == 2

\* Most rows of a pixel grid, and most cells of a grid over all its rows.
MaxRows == 2

MaxCells == 3

\* Most shader constants in one call, and longest value vector tried.
MaxConstants == 2

MaxValLen == 5

\* Most Window constructions, failed ones included, in one process.
MaxWindows == 3

\* Most shared_ptrs to one file's texture a caller keeps at a time.
MaxHeld == 2

\* Largest coordinate tried as a bound of the logical range (-MaxCoord..MaxCoord).
MaxCoord == 2

\* Largest width tried for a range given by its size (0..MaxSize).
MaxSize == 64

(* ------------------------- program constants -------------------------- *)

GLFW_KEY_ESCAPE == 256

GLFW_RELEASE == 0

GLFW_PRESS == 1

GLFW_REPEAT == 2

\* The keys followed: Escape and one ordinary key (65, the letter A).
Keys == {GLFW_KEY_ESCAPE, 65}

KeyActions == {GLFW_RELEASE, GLFW_PRESS, GLFW_REPEAT}

\* File names handed to screenshot(); the empty string is a legal argument.
FileNames == {"", "a.png", "b.png"}

\* The i-th entry (1-based) of the palettes the windows are built with.
PaletteEntry(i) ==
    [r |-> (i * 40) % 256, g |-> (i * 80) % 256, b |-> (i * 120) % 256, a |-> 255 - i]

Palettes == {[i \in 1..n |-> PaletteEntry(i)] : n \in 0..MaxPalette}

\* What a read outside a vector's storage yields when it does not fault.
GarbageRGBA == [r |-> -1, g |-> -1, b |-> -1, a |-> -1]

VARIABLES
    m_window,              \* GLFWwindow* handle (0: null)
    m_palette,             \* std::vector<RGBA>
    m_clearColor,          \* int: palette index of the background
    m_curKeys,             \* std::map<int,bool>
    m_prevKeys,            \* std::map<int,bool>
    m_screenshotFileName,  \* std::string
    m_left,                \* float: the logical coordinate range
    m_right,
    m_bottom,
    m_top,
    m_projection,          \* std::vector<float>
    m_ssq,                 \* positions of the screen-size quad mesh (<<>>: none set)
    m_width,               \* int
    m_height,              \* int
    m_shadeFbo,            \* contents of the off-screen colour buffer
    m_textures,            \* loadTexture's cache: file name -> texture
    screen,                \* off-screen contents blitted into the frame last presented
    init,                  \* std::unique_ptr<StaticInit>: set or null
    glfwUp,                \* the windowing library is initialised
    audioUp,               \* the audio engine is initialised
    libLog,                \* history: library initialisations and terminations
    object,                \* "none" | "alive": the Window object
    nWindows,              \* history: constructions started
    lastRange,             \* history: arguments of the most recent setScreen
    closeFlag,             \* GLFW's should-close flag of m_window
    pc,                    \* where the single thread is
    nEvents,               \* events delivered in the poll in progress
    status,                \* "running" | "aborted" (assert) | "crashed" (fault)
    last,                  \* the call in progress or last made, and what it did
    pixels,                \* the Grid argument of the drawing call to make
    inputConstants,        \* the std::vector<Constant> argument of the call to make
    range,                 \* the (left, right, bottom, top) argument of the call to make
    pressFresh,            \* history: keys pressed and not yet seen by getKeyPressed
    pressDue,              \* history: of those, the ones due before this update() returns
    pressLost,             \* history: a due press was never seen
    everKey,               \* history: keys for which an event was ever delivered
    polled,                \* history: keys with an event since m_prevKeys was last copied
    escPressed,            \* history: an Escape press was delivered
    ctx,                   \* the context current on the thread: a window handle (0: none)
    other,                 \* the Window object the caller is not addressing, if any
    held,                  \* file |-> number of shared_ptrs to its cached texture the caller holds
    wanted                 \* history: most recent non-empty name given to screenshot()

vars == <<m_window, m_palette, m_clearColor, m_curKeys, m_prevKeys,
          m_screenshotFileName, m_left, m_right, m_bottom, m_top, m_projection,
          m_ssq, m_width, m_height, m_shadeFbo, m_textures, screen, init, glfwUp,
          audioUp, libLog, object, nWindows, lastRange, closeFlag, pc, nEvents, status, last, pixels,
          inputConstants, range, pressFresh, pressDue, pressLost, everKey, polled,
          escPressed, ctx, other, held, wanted>>

(* ------------------------------ helpers ------------------------------- *)

\* One recorded effect: a library call and its interesting argument.
Eff(cmd, arg) == <<cmd, arg>>

\* The arguments, in order, of the recorded calls named cmd.
RECURSIVE ArgsOf(_, _)
ArgsOf(trace, cmd) ==
    IF trace = <<>> THEN <<>>
    ELSE (IF Head(trace)[1] = cmd THEN <<Head(trace)[2]>> ELSE <<>>)
         \o ArgsOf(Tail(trace), cmd)

\* How many recorded calls are named cmd.
Count(trace, cmd) == Len(ArgsOf(trace, cmd))

\* Position of the first recorded call named cmd (0: none).
RECURSIVE FirstPos(_, _)
FirstPos(trace, cmd) ==
    IF trace = <<>> THEN 0
    ELSE IF Head(trace)[1] = cmd THEN 1
    ELSE LET p == FirstPos(Tail(trace), cmd) IN IF p = 0 THEN 0 ELSE p + 1

\* The context current on the thread after the recorded calls, c being current
\* before them: glfwMakeContextCurrent makes its window's context current, and
\* glfwDestroyWindow detaches the context it destroys.
RECURSIVE ContextAfter(_, _)
ContextAfter(trace, c) ==
    IF trace = <<>> THEN c
    ELSE ContextAfter(Tail(trace),
                      IF Head(trace)[1] = "glfwMakeContextCurrent" THEN Head(trace)[2]
                      ELSE IF Head(trace)[1] = "glfwDestroyWindow"
                      THEN (IF Head(trace)[2] = c THEN 0 ELSE c)
                      ELSE c)

\* The range argument when no setScreen call is to be made.
NoRange == <<0, 0, 0, 0>>

\* The grid argument when no drawing call is to be made.
NoGrid == [type |-> "Grid", rows |-> <<>>]

NoCall == [op |-> "none", arg |-> <<>>, ret |-> "none", failAt |-> 0, failCell |-> -1,
           trace |-> <<>>]

(* --------------------------- key bookkeeping --------------------------- *)

\* std::map<int,bool>::operator[] assignment: insert or overwrite.
MapPut(keyMap, keyCode, value) ==
    [k \in (DOMAIN keyMap) \cup {keyCode} |-> IF k = keyCode THEN value ELSE keyMap[k]]

keyState(keyMap, keyCode) ==
    IF keyCode \notin DOMAIN keyMap THEN FALSE ELSE keyMap[keyCode]

getKeyState(keyCode) == keyState(m_curKeys, keyCode)

getKeyPressed(keyCode) ==
    keyState(m_curKeys, keyCode) /\ ~keyState(m_prevKeys, keyCode)

getKeyReleased_Mut(keyCode) == keyState(m_prevKeys, keyCode)

getKeyReleased(keyCode) ==
    ~keyState(m_curKeys, keyCode) /\ keyState(m_prevKeys, keyCode)

\* The key callback's effect on the should-close flag.
KeyCallbackClose_Mut(flag, key, action) ==
    key = GLFW_KEY_ESCAPE /\ action = GLFW_PRESS

KeyCallbackClose(flag, key, action) ==
    IF key = GLFW_KEY_ESCAPE /\ action = GLFW_PRESS THEN TRUE ELSE flag

\* The key callback's effect on m_curKeys.
KeyCallbackKeys(cur, key, action) ==
    IF action = GLFW_PRESS THEN MapPut(cur, key, TRUE)
    ELSE IF action = GLFW_RELEASE THEN MapPut(cur, key, FALSE)
    ELSE cur

\* Keys getKeyPressed reports for the given maps.
PressedNow(cur, prev) == {k \in Keys : keyState(cur, k) /\ ~keyState(prev, k)}

(* ------------------- coordinate range and projection ------------------- *)

Abs(n) == IF n < 0 THEN -n ELSE n

Sign(n) == IF n < 0 THEN -1 ELSE IF n > 0 THEN 1 ELSE 0

\* The number of binary digits of n >= 0.
RECURSIVE BitLen(_)
BitLen(n) ==
    IF n >= 16 THEN 4 + BitLen(n \div 16)
    ELSE IF n >= 8 THEN 4 ELSE IF n >= 4 THEN 3 ELSE IF n >= 2 THEN 2 ELSE n

\* A float is kept as the fraction num/den in lowest terms: a finite float
\* is a whole multiple of a power of two, so den is a power of two; den = 0
\* is what a division by zero gives (num 1: +inf, -1: -inf, 0: NaN).
\* Dyadic(n, e) is the float n * 2^e, for n of at most 24 binary digits.
RECURSIVE Dyadic(_, _)
Dyadic(n, e) ==
    IF n = 0 THEN [num |-> 0, den |-> 1]
    ELSE IF n % 2 = 0 THEN Dyadic(n \div 2, e + 1)
    ELSE IF e >= 0 THEN [num |-> n * 2^e, den |-> 1]
    ELSE [num |-> n, den |-> 2^(-e)]

\* The significand m of l binary digits brought to 24 digits.
Significand(m, l) == IF l <= 24 THEN m * 2^(24 - l) ELSE m \div 2^(l - 24)

\* The sign, the 24-digit significand (2^23 <= man < 2^24) and the exponent
\* of a finite float other than zero: a = sign * man * 2^exp.
Parts(a) ==
    [sign |-> Sign(a.num),
     man  |-> Significand(Abs(a.num), BitLen(Abs(a.num))),
     exp  |-> (BitLen(Abs(a.num)) - 24) - (BitLen(a.den) - 1)]

\* s * m * 2^e with the last k binary digits of m rounded away: a value half
\* way between two floats goes to the one with the even significand; sticky
\* tells that the exact value lies above m, by less than one.
RoundCut(s, m, k, e, sticky) ==
    Dyadic(s * (IF \/ m % 2^k > 2^(k - 1)
                   \/ (m % 2^k = 2^(k - 1) /\ (sticky \/ (m \div 2^k) % 2 = 1))
                THEN (m \div 2^k) + 1
                ELSE m \div 2^k),
           e + k)

\* The float nearest to s * (m + f) * 2^e, where f is a fraction with
\* 0 < f < 1 if sticky and 0 otherwise (the default rounding of IEEE 754
\* binary32: to nearest, ties to even). With sticky, m has more than 24
\* digits.
RoundFloat(s, m, e, sticky) ==
    IF BitLen(m) <= 24 THEN Dyadic(s * m, e)
    ELSE RoundCut(s, m, BitLen(m) - 24, e, sticky)

\* high * 2^24 + lsum is the 48-digit product of two significands; its
\* first 29 digits are rounded, the rest is sticky.
MulRound(s, high, lsum, e) ==
    RoundFloat(s, (high + (lsum \div 16777216)) * 32 + ((lsum % 16777216) \div 524288),
               e, lsum % 524288 # 0)

\* The product of the significands x1 * 2^12 + x0 and y1 * 2^12 + y0, formed
\* from their 12-digit halves.
MulHalves(s, x1, x0, y1, y0, e) ==
    MulRound(s, x1 * y1 + ((x1 * y0 + x0 * y1) \div 4096),
             ((x1 * y0 + x0 * y1) % 4096) * 4096 + x0 * y0, e)

MulParts(x, y) ==
    MulHalves(x.sign * y.sign, x.man \div 4096, x.man % 4096,
              y.man \div 4096, y.man % 4096, x.exp + y.exp + 19)

\* a * b rounded to a float.
FMul(a, b) ==
    IF a.den = 0 \/ b.den = 0 THEN [num |-> Sign(a.num) * Sign(b.num), den |-> 0]
    ELSE IF a.num = 0 \/ b.num = 0 THEN [num |-> 0, den |-> 1]
    ELSE MulParts(Parts(a), Parts(b))

\* q and the next 6 * n binary digits of r / y (r < y < 2^24), and what is
\* left over: long division, six digits at a time.
RECURSIVE DivBits(_, _, _, _)
DivBits(r, y, n, q) ==
    IF n = 0 THEN [quot |-> q, rem |-> r]
    ELSE DivBits((r * 64) % y, y, n - 1, q * 64 + ((r * 64) \div y))

DivRound(s, d, e) == RoundFloat(s, d.quot, e, d.rem # 0)

\* The quotient of two significands to 30 digits after the point, rounded.
DivParts(x, y) ==
    DivRound(x.sign * y.sign,
             IF x.man >= y.man THEN DivBits(x.man - y.man, y.man, 5, 1)
             ELSE DivBits(x.man, y.man, 5, 0),
             x.exp - y.exp - 30)

\* a / b rounded to a float; a zero divisor gives an infinity of the
\* dividend's sign, or NaN for 0/0, and inf/inf is NaN; a division by a
\* power of two only moves the exponent and is exact.
FDiv(a, b) ==
    IF a.den = 0 \/ b.den = 0 \/ b.num = 0
    THEN (IF a.den * b.num = 0
          THEN [num |-> Sign((IF b.num < 0 THEN -1 ELSE 1) * a.num * b.den), den |-> 0]
          ELSE [num |-> 0, den |-> 1])
    ELSE IF a.num = 0 THEN [num |-> 0, den |-> 1]
    ELSE IF Abs(b.num) = 2^(BitLen(Abs(b.num)) - 1)
    THEN Dyadic(Sign(b.num) * a.num,
                (BitLen(b.den) - 1) - (BitLen(Abs(b.num)) - 1) - (BitLen(a.den) - 1))
    ELSE DivParts(Parts(a), Parts(b))

\* The float n/d of two whole floats.
Float(n, d) == FDiv([num |-> n, den |-> 1], [num |-> d, den |-> 1])

\* (sx * xs + sy * ys) * 2^e rounded; if sticky, digits of ys were shifted
\* out, and xs is then the larger by far.
AddAligned(sx, xs, sy, ys, sticky, e) ==
    IF sticky
    THEN RoundFloat(sx, IF sx = sy THEN xs + ys ELSE xs - ys - 1, e, TRUE)
    ELSE RoundFloat(Sign(sx * xs + sy * ys), Abs(sx * xs + sy * ys), e, FALSE)

\* x + y where x has the larger exponent (larger is x as a float): y is
\* shifted to x's exponent, three guard digits kept; a y too small to
\* matter leaves x.
AddParts(x, y, larger) ==
    IF x.exp - y.exp >= 27 THEN larger
    ELSE AddAligned(x.sign, x.man * 8, y.sign, (y.man * 8) \div 2^(x.exp - y.exp),
                    (y.man * 8) % 2^(x.exp - y.exp) # 0, x.exp - 3)

\* a + b rounded to a float. Two infinities of one sign add to that
\* infinity, of opposite signs to NaN.
FAdd(a, b) ==
    IF a.den = 0 /\ b.den = 0
    THEN (IF a.num = b.num THEN a ELSE [num |-> 0, den |-> 0])
    ELSE IF a.den = 0 THEN a
    ELSE IF b.den = 0 THEN b
    ELSE IF b.num = 0 THEN a
    ELSE IF a.num = 0 THEN b
    ELSE IF Parts(a).exp >= Parts(b).exp THEN AddParts(Parts(a), Parts(b), a)
    ELSE AddParts(Parts(b), Parts(a), b)

\* The members of the Window that the configuration calls read and write.
Members ==
    [window |-> m_window,
     left |-> m_left, right |-> m_right, bottom |-> m_bottom, top |-> m_top,
     projection |-> m_projection, ssq |-> m_ssq, width |-> m_width, height |-> m_height,
     palette |-> m_palette, clearColor |-> m_clearColor]

\* The members as a call leaves them.
Assign(w) ==
    /\ m_window' = w.window
    /\ m_left' = w.left /\ m_right' = w.right /\ m_bottom' = w.bottom /\ m_top' = w.top
    /\ m_projection' = w.projection /\ m_ssq' = w.ssq
    /\ m_width' = w.width /\ m_height' = w.height
    /\ m_palette' = w.palette /\ m_clearColor' = w.clearColor

\* The float -a.
FNeg(a) == [a EXCEPT !.num = -a.num]

\* The six vertices handed to quad::setPositions, for hx = sx*0.5f and
\* hy = sy*0.5f: two triangles.
QuadCorners(hx, hy) ==
    LET ssqTopLeft     == <<FNeg(hx), FNeg(hy)>>
        ssqTopRight    == <<FNeg(hx), hy>>
        ssqBottomLeft  == <<hx, FNeg(hy)>>
        ssqBottomRight == <<hx, hy>>
    IN  <<ssqBottomLeft, ssqBottomRight, ssqTopRight, ssqBottomLeft, ssqTopRight, ssqTopLeft>>

ScreenSizeQuad_Mut(sx, sy) == QuadCorners(Float(sx, 2), Float(sx, 2))

\* The vertices of the screen-size quad for a range of size sx by sy.
ScreenSizeQuad(sx, sy) == QuadCorners(Float(sx, 2), Float(sy, 2))

\* The 16 floats assigned to m_projection (m_near = -1, m_far = 1).
Projection(left, right, bottom, top) ==
    LET zero == [num |-> 0, den |-> 1]
        one  == [num |-> 1, den |-> 1]
    IN  << Float(2, right - left), zero, zero, zero,
           zero, Float(2, top - bottom), zero, zero,
           zero, zero, Float(-2, 1 - (-1)), zero,
           zero, zero, zero, one >>

\* The test of setScreen's early return.
SameRange(w, left, right, bottom, top) ==
    w.left = left /\ w.right = right /\ w.bottom = bottom /\ w.top = top

\* setScreen(left, right, bottom, top): the members it leaves, the matrix it
\* returns and the calls it makes.
setScreen(w, left, right, bottom, top) ==
    IF SameRange(w, left, right, bottom, top)
    THEN [w |-> w, ret |-> w.projection,
          trace |-> << Eff("glfwMakeContextCurrent", w.window) >>]
    ELSE LET screenSizeQuad == ScreenSizeQuad(right - left, top - bottom)
             projection == Projection(left, right, bottom, top)
         IN  [w |-> [w EXCEPT !.left = left, !.right = right, !.bottom = bottom,
                              !.top = top, !.ssq = screenSizeQuad,
                              !.projection = projection],
              ret |-> projection,
              trace |-> << Eff("glfwMakeContextCurrent", w.window),
                           Eff("glOrtho", <<left, right, bottom, top>>),
                           Eff("quad::setPositions", screenSizeQuad),
                           Eff("setUniform", "texture0"),
                           Eff("setUniformm", projection) >>]

\* setScreen of the earlier revision: no early return.
setScreenV1(w, left, right, bottom, top) ==
    [w EXCEPT !.left = left, !.right = right, !.bottom = bottom, !.top = top,
              !.ssq = ScreenSizeQuad(right - left, top - bottom),
              !.projection = Projection(left, right, bottom, top)]

\* setScreen(pos, size): the range centred at pos (size of even components).
setScreenAt(w, pos, size) ==
    LET left   == pos[1] - (size[1] \div 2)
        right  == pos[1] + (size[1] \div 2)
        top    == pos[2] - (size[2] \div 2)
        bottom == pos[2] + (size[2] \div 2)
    IN  setScreen(w, left, right, top, bottom)

\* The mat4 A times the vec4 vec, A read column by column as OpenGL does.
MatVec(A, vec) ==
    [i \in 1..4 |->
        FAdd(FAdd(FMul(A[i], vec[1]), FMul(A[4 + i], vec[2])),
             FAdd(FMul(A[8 + i], vec[3]), FMul(A[12 + i], vec[4])))]

\* The mat4 A times the mat4 B: column c of the product is A times column c of B.
MatMul(A, B) ==
    [n \in 1..16 |->
        MatVec(A, [k \in 1..4 |-> B[4 * ((n - 1) \div 4) + k]])[((n - 1) % 4) + 1]]

\* P * M * vec4(x, y, 0, 1) of the vertex shader, then the division by w: the
\* normalised device coordinates.
Transform(P, M, v) ==
    LET clip == MatVec(MatMul(P, M), <<v[1], v[2], Float(0, 1), Float(1, 1)>>)
    IN  <<FDiv(clip[1], clip[4]), FDiv(clip[2], clip[4])>>

\* setScreenSize(width, height)
setScreenSize_Mut(w, width, height) ==
    [w EXCEPT !.width = width, !.height = height, !.right = width, !.top = height]

setScreenSize_MutPalette(w, width, height) ==
    [w EXCEPT !.width = width, !.height = height, !.palette = <<>>]

setScreenSize(w, width, height) == [w EXCEPT !.width = width, !.height = height]

\* setScreenPosition(x, y)
setScreenPosition(w, x, y) == w

(* ------------------------ construction, destruction -------------------- *)

\* glfwGetFramebufferSize of a window created 8 by 6.
FramebufferSize == [width |-> 8, height |-> 6]

\* What glfwGetFramebufferSize may report: the size of the window's content,
\* or 0 by 0 (its answer on an error, or for a window with no content area).
FramebufferSizes == {[width |-> 0, height |-> 0], FramebufferSize}

\* What the platform decides in one construction.
Environments ==
    [glfwInit : BOOLEAN, audio : BOOLEAN, createWindow : BOOLEAN, fb : FramebufferSizes]

FairWeather ==
    [glfwInit |-> TRUE, audio |-> TRUE, createWindow |-> TRUE, fb |-> FramebufferSize]

\* StaticInit::StaticInit(): glfwInit, then ma_engine_init; up tells whether
\* the windowing library is initialised already (glfwInit then succeeds at once).
StaticInitCtor(up, env) ==
    IF ~(up \/ env.glfwInit)
    THEN [thrown |-> "Failed to initialize OpenGL!", glfwUp |-> FALSE, audioUp |-> FALSE,
          log |-> << Eff("glfwInit", FALSE) >>]
    ELSE IF ~env.audio
    THEN [thrown |-> "Failed to initialize audio engine!", glfwUp |-> TRUE,
          audioUp |-> FALSE,
          log |-> << Eff("glfwInit", TRUE), Eff("ma_engine_init", FALSE) >>]
    ELSE [thrown |-> "", glfwUp |-> TRUE, audioUp |-> TRUE,
          log |-> << Eff("glfwInit", TRUE), Eff("ma_engine_init", TRUE) >>]

\* StaticInit::~StaticInit()
StaticInitDtor == << Eff("ma_engine_uninit", TRUE), Eff("glfwTerminate", TRUE) >>

\* if(!init) init = std::make_unique<StaticInit>(): lib is [init, glfwUp, audioUp].
EnsureInit(lib, env) ==
    IF lib.init THEN [thrown |-> "", lib |-> lib, log |-> <<>>]
    ELSE LET si == StaticInitCtor(lib.glfwUp, env)
         IN  [thrown |-> si.thrown,
              lib |-> [init |-> si.thrown = "", glfwUp |-> si.glfwUp, audioUp |-> si.audioUp],
              log |-> si.log]

\* The members as the constructor's initialiser list leaves them.
InitialMembers(sizeX, sizeY, palette, clearColor) ==
    [window |-> 0, left |-> 0, right |-> 0, bottom |-> 0, top |-> 0,
     projection |-> <<>>, ssq |-> <<>>, width |-> sizeX, height |-> sizeY,
     palette |-> palette, clearColor |-> clearColor]

\* if (!m_window) throw
WindowCreated_Mut(handle) == TRUE

WindowCreated(handle) == handle # 0

\* Window::Window(sizeX, sizeY, title, palette, clearColor)
\* No second Window object.
NoOther ==
    [w |-> [window |-> 0, left |-> 0, right |-> 0, bottom |-> 0, top |-> 0,
            projection |-> <<>>, ssq |-> <<>>, width |-> 0, height |-> 0,
            palette |-> <<>>, clearColor |-> 0],
     textures |-> <<>>, fbo |-> "none", object |-> "none", held |-> <<>>]

\* What glfwCreateWindow returns when it succeeds: a handle no live window has.
FreshHandle == IF other.object = "alive" /\ other.w.window = 1 THEN 2 ELSE 1

WindowCtor(lib, sizeX, sizeY, palette, clearColor, env) ==
    LET made   == EnsureInit(lib, env)
        w0     == InitialMembers(sizeX, sizeY, palette, clearColor)
        handle == IF env.createWindow THEN FreshHandle ELSE 0
        w1     == [w0 EXCEPT !.window = handle]
        begun  == << Eff("glfwCreateWindow", <<sizeX + 2, sizeY + 2>>) >>
        set    == setScreen(w1, 0, env.fb.width, 0, env.fb.height)
    IN  IF made.thrown # ""
        THEN [thrown |-> made.thrown, lib |-> made.lib, log |-> made.log, w |-> w0,
              fbo |-> "none", trace |-> <<>>]
        ELSE IF ~WindowCreated(handle)
        THEN [thrown |-> "Failed to create window!", lib |-> made.lib, log |-> made.log,
              w |-> w1, fbo |-> "none", trace |-> begun]
        ELSE [thrown |-> "", lib |-> made.lib, log |-> made.log, w |-> set.w,
              fbo |-> "fresh",
              trace |-> begun
                        \o << Eff("glfwMakeContextCurrent", handle),
                              Eff("gladLoadGL", 0),
                              Eff("glfwSetWindowUserPointer", handle),
                              Eff("glfwSetKeyCallback", handle),
                              Eff("Shader", "m_ssqShader"),
                              Eff("quad::create", "m_sprite"),
                              Eff("quad::create", "m_ssq"),
                              Eff("glfwGetFramebufferSize", env.fb),
                              Eff("glViewport", env.fb) >>
                        \o set.trace
                        \o << Eff("FrameBuffer", "m_shadeFbo"),
                              Eff("Texture", env.fb) >>]

(* ------------------------------ frame loop ----------------------------- *)

InPoll == pc \in {"shouldClose.poll", "update.entryPoll", "update.finalPoll"}

Idle == status = "running" /\ pc = "idle" /\ object = "alive"

\* shouldClose()'s result once its poll is over.
ShouldCloseResult_Mut(window, flag) == window = 0

ShouldCloseResult(window, flag) == window = 0 \/ flag

\* update()'s result after its final poll.
UpdateFinalResult_Mut(flag) == 0

UpdateFinalResult(flag) == IF flag THEN -1 ELSE 0

\* m_screenshotFileName after update() has handled a request.
ScreenshotNameAfterWrite_Mut(name) == name

ScreenshotNameAfterWrite(name) == ""

\* takeScreenshot(filename)
TakeScreenshotTrace(filename) ==
    << Eff("glfwMakeContextCurrent", m_window),
       Eff("glReadPixels", 0),
       Eff("stbi_write_png", filename) >>

\* drawScreenSizeQuad(texture)
DrawScreenSizeQuadTrace(texture) ==
    << Eff("glfwMakeContextCurrent", m_window),
       Eff("glBindTexture", texture),
       Eff("quad::render", "m_ssq") >>

\* update() from the context switch to the buffer swap and the screenshot.
UpdatePresentTrace(name) ==
    << Eff("glfwMakeContextCurrent", m_window) >>
    \o DrawScreenSizeQuadTrace("m_shadeFbo")
    \o << Eff("glfwSwapBuffers", m_window), Eff("glFinish", 0) >>
    \o (IF Len(name) > 0 THEN TakeScreenshotTrace(name) ELSE <<>>)

\* m_prevKeys after m_prevKeys = m_curKeys.
PrevKeysAfterFrame_Mut(cur, prev) == prev

PrevKeysAfterFrame(cur, prev) == cur

\* The off-screen buffer after m_shadeFbo->use(glClearColor(0,0,0,0); glClear).
FboAfterClear_Mut(content) == content

FboAfterClear(content) == "clear"

\* update() clearing the back buffer and the off-screen buffer.
UpdateClearTrace(rgb) ==
    << Eff("glClearColor", [r |-> rgb.r, g |-> rgb.g, b |-> rgb.b, a |-> 255]),
       Eff("glClear", "back"),
       Eff("glClearColor", [r |-> 0, g |-> 0, b |-> 0, a |-> 0]),
       Eff("glClear", "m_shadeFbo") >>

\* Whether index is a valid subscript of a vector of the given size.
InBounds(index, size) == index >= 0 /\ index < size

\* What an unchecked vector read does: the element, or, out of bounds, a fault
\* or whatever lies there.
UncheckedReads(vec, index) ==
    IF InBounds(index, Len(vec)) THEN {[fault |-> FALSE, value |-> vec[index + 1]]}
    ELSE {[fault |-> TRUE, value |-> GarbageRGBA],
          [fault |-> FALSE, value |-> GarbageRGBA]}

HistoryUnchanged ==
    UNCHANGED <<pressFresh, pressDue, pressLost, everKey, polled, escPressed, wanted>>

ArgsUnchanged == UNCHANGED <<pixels, inputConstants, range>>

\* What no call of the frame loop or drawing call assigns.
ConfigUnchanged ==
    UNCHANGED <<m_window, m_palette, m_clearColor, m_left, m_right, m_bottom, m_top,
                m_projection, m_ssq, m_width, m_height, m_textures, init, glfwUp,
                audioUp, libLog, object, nWindows, lastRange, other, held>>

WindowUnchanged == ConfigUnchanged /\ UNCHANGED <<m_shadeFbo, screen>>

\* screenshot(filename)
Screenshot(filename) ==
    /\ Idle
    /\ m_screenshotFileName' = filename
    /\ last' = [NoCall EXCEPT !.op = "screenshot", !.arg = filename, !.ret = "void"]
    /\ wanted' = IF filename = "" THEN wanted ELSE filename
    /\ WindowUnchanged /\ ArgsUnchanged
    /\ UNCHANGED <<m_curKeys, m_prevKeys, closeFlag, pc, nEvents, status,
                   pressFresh, pressDue, pressLost, everKey, polled, escPressed>>
    /\ UNCHANGED ctx

\* shouldClose() up to the start of its poll.
ShouldCloseCall ==
    /\ Idle
    /\ pc' = "shouldClose.poll"
    /\ nEvents' = 0
    /\ last' = [NoCall EXCEPT !.op = "shouldClose",
                              !.trace = << Eff("glfwMakeContextCurrent", m_window),
                                           Eff("glfwPollEvents", 0) >>]
    /\ WindowUnchanged /\ ArgsUnchanged /\ HistoryUnchanged
    /\ UNCHANGED <<m_curKeys, m_prevKeys, m_screenshotFileName, closeFlag, status>>
    /\ ctx' = ContextAfter(last'.trace, ctx)

\* shouldClose() returning.
ShouldCloseReturn ==
    /\ status = "running" /\ pc = "shouldClose.poll"
    /\ pc' = "idle"
    /\ last' = [last EXCEPT !.ret = ShouldCloseResult(m_window, closeFlag)]
    /\ pressFresh' = pressFresh \ PressedNow(m_curKeys, m_prevKeys)
    /\ WindowUnchanged /\ ArgsUnchanged
    /\ UNCHANGED <<m_curKeys, m_prevKeys, m_screenshotFileName, closeFlag, nEvents,
                   status, pressDue, pressLost, everKey, polled, escPressed, wanted>>
    /\ UNCHANGED ctx

\* update() up to the start of the poll of its entry check (shouldClose()).
UpdateCall ==
    /\ Idle
    /\ pc' = "update.entryPoll"
    /\ nEvents' = 0
    /\ last' = [NoCall EXCEPT !.op = "update",
                              !.trace = << Eff("glfwMakeContextCurrent", m_window),
                                           Eff("glfwPollEvents", 0) >>]
    /\ pressDue' = pressFresh
    /\ pressFresh' = {}
    /\ WindowUnchanged /\ ArgsUnchanged
    /\ UNCHANGED <<m_curKeys, m_prevKeys, m_screenshotFileName, closeFlag, status,
                   pressLost, everKey, polled, escPressed, wanted>>
    /\ ctx' = ContextAfter(last'.trace, ctx)

\* GLFW delivering one key event to the key callback, inside a poll.
KeyCallback(key, action) ==
    /\ status = "running" /\ InPoll /\ nEvents < MaxEvents
    /\ nEvents' = nEvents + 1
    /\ closeFlag' = KeyCallbackClose(closeFlag, key, action)
    /\ m_curKeys' = KeyCallbackKeys(m_curKeys, key, action)
    /\ everKey' = everKey \cup {key}
    /\ polled' = polled \cup {key}
    /\ escPressed' = (escPressed \/ (key = GLFW_KEY_ESCAPE /\ action = GLFW_PRESS))
    /\ pressFresh' = IF action = GLFW_PRESS THEN pressFresh \cup {key}
                     ELSE IF action = GLFW_RELEASE THEN pressFresh \ {key}
                     ELSE pressFresh
    /\ pressDue' = IF action = GLFW_RELEASE THEN pressDue \ {key} ELSE pressDue
    /\ WindowUnchanged /\ ArgsUnchanged
    /\ UNCHANGED <<m_prevKeys, m_screenshotFileName, pc, status, last, pressLost, wanted>>
    /\ UNCHANGED ctx

\* GLFW handling the user's request to close the window, inside a poll.
WindowCloseRequest ==
    /\ status = "running" /\ InPoll /\ nEvents < MaxEvents
    /\ ~closeFlag
    /\ nEvents' = nEvents + 1
    /\ closeFlag' = TRUE
    /\ WindowUnchanged /\ ArgsUnchanged /\ HistoryUnchanged
    /\ UNCHANGED <<m_curKeys, m_prevKeys, m_screenshotFileName, pc, status, last>>
    /\ UNCHANGED ctx

\* update() from the end of its entry check to the start of its final poll.
UpdateFrame ==
    /\ status = "running" /\ pc = "update.entryPoll"
    /\ IF ShouldCloseResult(m_window, closeFlag)
       THEN /\ pc' = "idle"
            /\ last' = [last EXCEPT !.ret = -1]
            /\ pressLost' = (pressLost \/ pressDue # {})
            /\ pressDue' = {}
            /\ pressFresh' = pressFresh \ PressedNow(m_curKeys, m_prevKeys)
            /\ UNCHANGED <<m_prevKeys, m_screenshotFileName, nEvents, status, wanted,
                           m_shadeFbo, screen, polled>>
       ELSE \E rd \in UncheckedReads(m_palette, m_clearColor) :
            LET shown == last.trace \o UpdatePresentTrace(m_screenshotFileName)
                                    \o << Eff("m_palette[]", m_clearColor) >>
            IN  /\ m_screenshotFileName' =
                       IF Len(m_screenshotFileName) > 0
                       THEN ScreenshotNameAfterWrite(m_screenshotFileName)
                       ELSE m_screenshotFileName
                /\ wanted' = ""
                /\ screen' = m_shadeFbo
                /\ IF rd.fault
                   THEN /\ status' = "crashed"
                        /\ pc' = "dead"
                        /\ last' = [last EXCEPT !.trace = shown, !.failAt = 1071]
                        /\ UNCHANGED <<m_prevKeys, nEvents, m_shadeFbo, polled>>
                   ELSE /\ pc' = "update.finalPoll"
                        /\ nEvents' = 0
                        /\ m_shadeFbo' = FboAfterClear(m_shadeFbo)
                        /\ m_prevKeys' = PrevKeysAfterFrame(m_curKeys, m_prevKeys)
                        /\ polled' = {}
                        /\ last' = [last EXCEPT
                                      !.trace = shown \o UpdateClearTrace(rd.value)
                                                      \o << Eff("glfwPollEvents", 0) >>]
                        /\ UNCHANGED status
                /\ UNCHANGED <<pressFresh, pressDue, pressLost>>
    /\ ConfigUnchanged /\ ArgsUnchanged
    /\ UNCHANGED <<m_curKeys, closeFlag, everKey, escPressed>>
    /\ ctx' = ContextAfter(last'.trace, ctx)

\* update() returning after its final poll.
UpdateReturn ==
    /\ status = "running" /\ pc = "update.finalPoll"
    /\ pc' = "idle"
    /\ last' = [last EXCEPT !.ret = UpdateFinalResult(closeFlag)]
    /\ pressLost' = (pressLost \/ pressDue # {})
    /\ pressDue' = {}
    /\ pressFresh' = pressFresh \ PressedNow(m_curKeys, m_prevKeys)
    /\ WindowUnchanged /\ ArgsUnchanged
    /\ UNCHANGED <<m_curKeys, m_prevKeys, m_screenshotFileName, closeFlag, nEvents,
                   status, everKey, polled, escPressed, wanted>>
    /\ UNCHANGED ctx

\* The state right after the first constructor of the process, for a palette,
\* a background index and what the platform decided.
ConstructedIn(palette, clearColor, env) ==
    LET made == WindowCtor([init |-> FALSE, glfwUp |-> FALSE, audioUp |-> FALSE],
                           6, 4, palette, clearColor, env)
    IN  /\ other = NoOther
        /\ held = <<>>
        /\ m_window = made.w.window
        /\ ctx = made.w.window
        /\ m_palette = made.w.palette
        /\ m_clearColor = made.w.clearColor
        /\ m_left = made.w.left /\ m_right = made.w.right
        /\ m_bottom = made.w.bottom /\ m_top = made.w.top
        /\ m_projection = made.w.projection /\ m_ssq = made.w.ssq
        /\ m_width = made.w.width /\ m_height = made.w.height
        /\ m_shadeFbo = made.fbo
        /\ init = made.lib.init /\ glfwUp = made.lib.glfwUp /\ audioUp = made.lib.audioUp
        /\ libLog = made.log
    /\ m_textures = <<>>
    /\ screen = "none"
    /\ object = "alive"
    /\ nWindows = 1
    /\ lastRange = <<0, env.fb.width, 0, env.fb.height>>
    /\ m_curKeys = <<>>
    /\ m_prevKeys = <<>>
    /\ m_screenshotFileName = ""
    /\ closeFlag = FALSE
    /\ pc = "idle"
    /\ nEvents = 0
    /\ status = "running"
    /\ last = NoCall
    /\ pressFresh = {} /\ pressDue = {} /\ pressLost = FALSE
    /\ everKey = {} /\ polled = {} /\ escPressed = FALSE /\ wanted = ""

Constructed(palette, clearColor) ==
    /\ ConstructedIn(palette, clearColor, FairWeather)
    /\ range = NoRange

Init ==
    /\ \E palette \in Palettes :
       \E clearColor \in (-1)..Len(palette) : Constructed(palette, clearColor)
    /\ pixels = NoGrid
    /\ inputConstants = <<>>

Next ==
    \/ \E filename \in FileNames : Screenshot(filename)
    \/ ShouldCloseCall
    \/ ShouldCloseReturn
    \/ UpdateCall
    \/ \E key \in Keys, action \in KeyActions : KeyCallback(key, action)
    \/ WindowCloseRequest
    \/ UpdateFrame
    \/ UpdateReturn

Spec == Init /\ [][Next]_vars

(* ------------- SpecLife: constructions, destructions, exit ------------- *)

\* Image files loadTexture is asked for, in the order std::map keeps its keys.
TextureFiles == <<"a.png", "b.png">>

\* The cached textures, in key order.
RECURSIVE CachedFrom(_, _)
CachedFrom(cache, k) ==
    IF k > Len(TextureFiles) THEN <<>>
    ELSE (IF TextureFiles[k] \in DOMAIN cache THEN <<TextureFiles[k]>> ELSE <<>>)
         \o CachedFrom(cache, k + 1)

\* loadTexture(filename): the cache it leaves and what it returns (0: null);
\* loadable tells whether stbi_load can read the file.
loadTexture_MutReload(cache, filename, loadable) ==
    IF ~loadable
    THEN [cache |-> cache, ret |-> 0, trace |-> << Eff("stbi_load", filename) >>]
    ELSE LET texture == Cardinality(DOMAIN cache) + 1
         IN  [cache |-> [f \in (DOMAIN cache) \cup {filename} |->
                            IF f = filename THEN texture ELSE cache[f]],
              ret |-> texture,
              trace |-> << Eff("stbi_load", filename), Eff("Texture", filename),
                           Eff("stbi_image_free", filename) >>]

loadTexture_MutNull(cache, filename, loadable) ==
    IF filename \in DOMAIN cache
    THEN [cache |-> cache, ret |-> cache[filename], trace |-> <<>>]
    ELSE LET texture == IF loadable THEN Cardinality(DOMAIN cache) + 1 ELSE 0
         IN  [cache |-> [f \in (DOMAIN cache) \cup {filename} |->
                            IF f = filename THEN texture ELSE cache[f]],
              ret |-> texture,
              trace |-> << Eff("stbi_load", filename) >>]

loadTexture(cache, filename, loadable) ==
    IF filename \in DOMAIN cache
    THEN [cache |-> cache, ret |-> cache[filename], trace |-> <<>>]
    ELSE IF ~loadable
    THEN [cache |-> cache, ret |-> 0, trace |-> << Eff("stbi_load", filename) >>]
    ELSE LET texture == Cardinality(DOMAIN cache) + 1
         IN  [cache |-> [f \in (DOMAIN cache) \cup {filename} |->
                            IF f = filename THEN texture ELSE cache[f]],
              ret |-> texture,
              trace |-> << Eff("stbi_load", filename), Eff("Texture", filename),
                           Eff("stbi_image_free", filename) >>]

\* The orders in which std::map's destructor may destroy the elements with
\* the given keys: the language fixes none.
RECURSIVE DestructionOrders(_)
DestructionOrders(keys) ==
    IF keys = {} THEN {<<>>}
    ELSE UNION {{<<f>> \o rest : rest \in DestructionOrders(keys \ {f})} : f \in keys}

\* Window::~Window(): the body, then the members' destructors, of which
\* m_textures drops the cached textures in the given order.
WindowDtor(window, order) ==
    << Eff("release", "m_shadeFbo"),
       Eff("release", "m_ssqShader"),
       Eff("release", "m_ssq"),
       Eff("release", "m_sprite"),
       Eff("glfwDestroyWindow", window) >>
    \o [i \in 1..Len(order) |-> Eff("~Texture", order[i])]

LoopUnchanged ==
    UNCHANGED <<m_curKeys, m_prevKeys, m_screenshotFileName, closeFlag, nEvents>>

LibUnchanged == UNCHANGED <<init, glfwUp, audioUp, libLog, other>>

NoObject == status = "running" /\ pc = "idle" /\ object = "none"

\* new Window(6, 4, title, palette, 0), the caller catching what it throws.
Construct(env) ==
    /\ NoObject /\ nWindows < MaxWindows
    /\ LET made == WindowCtor([init |-> init, glfwUp |-> glfwUp, audioUp |-> audioUp],
                              6, 4, [i \in 1..MaxPalette |-> PaletteEntry(i)], 0, env)
       IN  /\ init' = made.lib.init
           /\ glfwUp' = made.lib.glfwUp
           /\ audioUp' = made.lib.audioUp
           /\ libLog' = libLog \o made.log
           /\ last' = [NoCall EXCEPT !.op = "Window", !.arg = env,
                                     !.ret = IF made.thrown = "" THEN "void" ELSE made.thrown,
                                     !.trace = made.trace]
           /\ IF made.thrown = ""
              THEN /\ Assign(made.w)
                   /\ m_shadeFbo' = made.fbo
                   /\ object' = "alive"
                   /\ lastRange' = <<0, env.fb.width, 0, env.fb.height>>
              ELSE /\ Assign(Members)
                   /\ UNCHANGED <<m_shadeFbo, object, lastRange>>
    /\ nWindows' = nWindows + 1
    /\ m_textures' = <<>>
    /\ LoopUnchanged /\ ArgsUnchanged /\ HistoryUnchanged
    /\ UNCHANGED <<pc, status, screen>>
    /\ ctx' = ContextAfter(last'.trace, ctx)
    /\ UNCHANGED other
    /\ UNCHANGED held

\* loadTexture(filename); keep tells whether the caller keeps the shared_ptr
\* it is handed or lets it go at once. Every call hands out a pointer of its
\* own, so a caller may hold several to one file's texture (MaxHeld at most).
LoadTexture(filename, loadable, keep) ==
    /\ Idle
    /\ LET loaded == loadTexture(m_textures, filename, loadable)
           kept   == keep /\ filename \in DOMAIN loaded.cache
           count  == IF filename \in DOMAIN held THEN held[filename] ELSE 0
       IN  /\ kept => count < MaxHeld
           /\ m_textures' = loaded.cache
           /\ held' = IF kept
                      THEN [f \in DOMAIN held \cup {filename} |->
                               IF f = filename THEN count + 1 ELSE held[f]]
                      ELSE held
           /\ last' = [NoCall EXCEPT !.op = "loadTexture",
                                     !.arg = <<filename, loadable>>,
                                     !.ret = loaded.ret, !.trace = loaded.trace]
    /\ Assign(Members)
    /\ LoopUnchanged /\ ArgsUnchanged /\ HistoryUnchanged /\ LibUnchanged
    /\ UNCHANGED <<pc, status, screen, m_shadeFbo, object, nWindows, lastRange>>
    /\ ctx' = ContextAfter(last'.trace, ctx)

\* The caller letting go of one shared_ptr it kept: its other pointers to
\* the file stay, and the cache still holds the texture, so nothing is
\* destroyed.
ReleaseTexture(filename) ==
    /\ Idle /\ filename \in DOMAIN held
    /\ held' = IF held[filename] = 1
               THEN [f \in DOMAIN held \ {filename} |-> held[f]]
               ELSE [held EXCEPT ![filename] = @ - 1]
    /\ last' = [NoCall EXCEPT !.op = "~shared_ptr", !.arg = filename, !.ret = "void"]
    /\ Assign(Members)
    /\ LoopUnchanged /\ ArgsUnchanged /\ HistoryUnchanged /\ LibUnchanged
    /\ UNCHANGED <<pc, status, screen, m_shadeFbo, m_textures, object, nWindows,
                   lastRange, ctx>>

\* delete window: of the cached textures, those the caller holds no
\* shared_ptr to are destroyed with the cache; the others outlive the Window
\* and are followed no further.
Destroy ==
    /\ Idle
    /\ held' = <<>>
    /\ \E order \in DestructionOrders((DOMAIN m_textures) \ DOMAIN held) :
          last' = [NoCall EXCEPT !.op = "~Window", !.arg = CachedFrom(m_textures, 1),
                                 !.ret = "void", !.trace = WindowDtor(m_window, order)]
    /\ Assign([Members EXCEPT !.window = 0])
    /\ object' = "none"
    /\ m_shadeFbo' = "none"
    /\ m_textures' = <<>>
    /\ LoopUnchanged /\ ArgsUnchanged /\ HistoryUnchanged /\ LibUnchanged
    /\ UNCHANGED <<pc, status, screen, nWindows, lastRange>>
    /\ ctx' = ContextAfter(last'.trace, ctx)

\* The process ending: the global init is destroyed.
Exit ==
    /\ NoObject
    /\ status' = "exited"
    /\ pc' = "dead"
    /\ libLog' = IF init THEN libLog \o StaticInitDtor ELSE libLog
    /\ init' = FALSE
    /\ glfwUp' = (IF init THEN FALSE ELSE glfwUp)
    /\ audioUp' = (IF init THEN FALSE ELSE audioUp)
    /\ last' = [NoCall EXCEPT !.op = "exit"]
    /\ Assign(Members)
    /\ LoopUnchanged /\ ArgsUnchanged /\ HistoryUnchanged
    /\ UNCHANGED <<m_shadeFbo, m_textures, screen, object, nWindows, lastRange>>
    /\ ctx' = (IF init THEN 0 ELSE ctx)
    /\ UNCHANGED other
    /\ UNCHANGED held

InitLife ==
    /\ ctx = 0 /\ other = NoOther /\ held = <<>>
    /\ m_window = 0 /\ m_palette = <<>> /\ m_clearColor = 0
    /\ m_left = 0 /\ m_right = 0 /\ m_bottom = 0 /\ m_top = 0
    /\ m_projection = <<>> /\ m_ssq = <<>> /\ m_width = 0 /\ m_height = 0
    /\ m_shadeFbo = "none" /\ m_textures = <<>> /\ screen = "none"
    /\ init = FALSE /\ glfwUp = FALSE /\ audioUp = FALSE /\ libLog = <<>>
    /\ object = "none" /\ nWindows = 0 /\ lastRange = <<0, 0, 0, 0>>
    /\ m_curKeys = <<>> /\ m_prevKeys = <<>> /\ m_screenshotFileName = ""
    /\ closeFlag = FALSE /\ pc = "idle" /\ nEvents = 0 /\ status = "running"
    /\ last = NoCall /\ pixels = NoGrid /\ inputConstants = <<>> /\ range = NoRange
    /\ pressFresh = {} /\ pressDue = {} /\ pressLost = FALSE
    /\ everKey = {} /\ polled = {} /\ escPressed = FALSE /\ wanted = ""

NextLife ==
    \/ \E env \in Environments : Construct(env)
    \/ \E k \in 1..Len(TextureFiles), loadable \in BOOLEAN, keep \in BOOLEAN :
          LoadTexture(TextureFiles[k], loadable, keep)
    \/ \E k \in 1..Len(TextureFiles) : ReleaseTexture(TextureFiles[k])
    \/ Destroy
    \/ Exit

SpecLife == InitLife /\ [][NextLife]_vars

(* ---------------- SpecRange: setScreen on a new window ------------------ *)

Coords == (-MaxCoord)..MaxCoord

\* A configuration call returning.
Configured(op, arg, res) ==
    /\ Assign(res.w)
    /\ last' = [NoCall EXCEPT !.op = op, !.arg = arg, !.ret = res.ret, !.trace = res.trace]
    /\ lastRange' = arg
    /\ LoopUnchanged /\ ArgsUnchanged /\ HistoryUnchanged /\ LibUnchanged
    /\ UNCHANGED <<pc, status, screen, m_shadeFbo, m_textures, object, nWindows>>
    /\ ctx' = ContextAfter(last'.trace, ctx)
    /\ UNCHANGED held

\* setScreen(left, right, bottom, top) with the range to try.
SetScreen ==
    /\ Idle
    /\ Configured("setScreen", range,
                  setScreen(Members, range[1], range[2], range[3], range[4]))

\* setScreen(0, width, 0, height) with the size of the window's content.
SetScreenPixels ==
    /\ Idle
    /\ Configured("setScreen", <<0, FramebufferSize.width, 0, FramebufferSize.height>>,
                  setScreen(Members, 0, FramebufferSize.width, 0, FramebufferSize.height))

\* setScreen(vec2(0,0), vec2(4,2))
SetScreenAt ==
    /\ Idle
    /\ Configured("setScreen", <<-2, 2, -1, 1>>, setScreenAt(Members, <<0, 0>>, <<4, 2>>))

InitRange ==
    /\ \E fb \in FramebufferSizes :
          ConstructedIn([i \in 1..MaxPalette |-> PaletteEntry(i)], 0,
                        [FairWeather EXCEPT !.fb = fb])
    \* every range of small coordinates, and ranges of every whole size up to
    \* MaxSize: as wide as high in the usual order, or reversed and one high
    /\ range \in (Coords \X Coords \X Coords \X Coords)
                    \cup {<<0, s, 0, s>> : s \in 1..MaxSize}
                    \cup {<<s, 0, 1, 0>> : s \in 1..MaxSize}
    /\ pixels = NoGrid
    /\ inputConstants = <<>>

NextRange ==
    \/ SetScreen
    \/ SetScreenPixels
    \/ SetScreenAt

SpecRange == InitRange /\ [][NextRange]_vars

(* ------------------------- claims: frame loop -------------------------- *)

\* update() getting past its entry check (to its final poll, or to the fault
\* of an out-of-range background index).
UpdatePasses == pc = "update.entryPoll" /\ pc' \in {"update.finalPoll", "dead"}

\* A call returning to the caller.
Returns == pc # "idle" /\ pc' = "idle"

WrittenFiles(call) == ArgsOf(call.trace, "stbi_write_png")

\* C1: update() returns -1 if and only if the close flag is set right after
\* the poll of its entry check or right after its final poll, and 0 otherwise:
\* it leaves through the entry check exactly when the flag is set there, and
\* after the final poll its result is -1 with the flag set and 0 without.
C1_UpdateResult ==
    [][ /\ (pc = "update.entryPoll" /\ pc' # pc /\ closeFlag)
             => (pc' = "idle" /\ last'.ret = -1)
        /\ (pc = "update.entryPoll" /\ pc' # pc /\ ~closeFlag)
             => pc' \in {"update.finalPoll", "dead"}
        /\ (pc = "update.finalPoll" /\ pc' # pc)
             => (pc' = "idle" /\ last'.ret = (IF closeFlag THEN -1 ELSE 0)) ]_vars

\* update() has returned -1 after presenting a frame: the flag was set in its final poll.
C1_Witness ==
    /\ pc = "idle" /\ last.op = "update" /\ last.ret = -1
    /\ Count(last.trace, "glfwSwapBuffers") = 1
    /\ InBounds(m_clearColor, Len(m_palette))

\* C2: closing is permanent: an Escape press delivered to the key callback
\* sets the close flag, no step clears the flag once set, and with the flag
\* set every shouldClose() returns true and every update() returns -1 without
\* getting past its entry check.
C2_ClosePermanent ==
    [][ /\ escPressed' => closeFlag'
        /\ closeFlag => closeFlag'
        /\ (closeFlag /\ pc = "update.entryPoll") => pc' \in {pc, "idle"}
        /\ (closeFlag /\ Returns)
             => (IF last'.op = "update" THEN last'.ret = -1 ELSE last'.ret = TRUE) ]_vars

\* An update() called after an Escape press returned -1 from its entry check,
\* no event having been delivered in that call.
C2_Witness ==
    /\ escPressed /\ pc = "idle" /\ last.op = "update" /\ last.ret = -1
    /\ nEvents = 0 /\ Count(last.trace, "glfwSwapBuffers") = 0
    /\ InBounds(m_clearColor, Len(m_palette))

\* C3 as stated: the update() that passes its entry check writes exactly one
\* file, named by the most recent non-empty name given to screenshot() since
\* the last write, and none when no such name was given (stated for windows
\* built with a valid background index).
C3_WritesLastNonEmptyName ==
    [][ (UpdatePasses /\ InBounds(m_clearColor, Len(m_palette)))
          => WrittenFiles(last') = (IF wanted = "" THEN <<>> ELSE <<wanted>>) ]_vars

\* C3 as amended: screenshot(filename) only stores filename and writes
\* nothing; the next update() that passes its entry check writes one file,
\* named by the most recent screenshot() argument, exactly when that argument
\* is non-empty (screenshot("") withdraws a pending request), after the buffer
\* swap and before the buffers are cleared, and leaves no request pending; no
\* other step writes a file or changes the stored name.
C3_ScreenshotOnce ==
    [][ /\ (pc = "idle" /\ last'.op = "screenshot")
             => (m_screenshotFileName' = last'.arg /\ WrittenFiles(last') = <<>>)
        /\ UpdatePasses
             => /\ WrittenFiles(last') =
                     (IF m_screenshotFileName = "" THEN <<>> ELSE <<m_screenshotFileName>>)
                /\ m_screenshotFileName' = ""
                /\ m_screenshotFileName # ""
                     => FirstPos(last'.trace, "glfwSwapBuffers")
                          < FirstPos(last'.trace, "stbi_write_png")
                /\ (m_screenshotFileName # "" /\ pc' = "update.finalPoll")
                     => FirstPos(last'.trace, "stbi_write_png")
                          < FirstPos(last'.trace, "glClear")
        /\ (~UpdatePasses /\ pc # "idle")
             => (WrittenFiles(last') = WrittenFiles(last) /\ UNCHANGED m_screenshotFileName)
        /\ (pc = "idle" /\ last'.op # "screenshot")
             => (WrittenFiles(last') = <<>> /\ UNCHANGED m_screenshotFileName) ]_vars

\* An update() wrote the file requested last and no request is pending.
C3_Witness ==
    /\ last.op = "update" /\ pc = "idle" /\ last.ret = 0
    /\ WrittenFiles(last) = <<"b.png">>
    /\ InBounds(m_clearColor, Len(m_palette))
    /\ m_screenshotFileName = ""

\* C4: no key press is lost: a press delivered in a poll, with no release of
\* that key delivered before the following update() returns, is reported by
\* getKeyPressed at some return to the caller before that update() is called
\* (stated for windows built with a valid background index).
C4_NoPressLost == InBounds(m_clearColor, Len(m_palette)) => ~pressLost

\* C5: for every key, getKeyPressed and getKeyReleased are never both true,
\* getKeyPressed implies getKeyState, getKeyReleased implies not getKeyState,
\* and all three are false for a key no event was ever delivered for.
C5_KeyQueriesConsistent ==
    \A k \in Keys :
        /\ ~(getKeyPressed(k) /\ getKeyReleased(k))
        /\ getKeyPressed(k) => getKeyState(k)
        /\ getKeyReleased(k) => ~getKeyState(k)
        /\ k \notin everKey
             => (~getKeyPressed(k) /\ ~getKeyReleased(k) /\ ~getKeyState(k))

\* The ordinary key is reported released and Escape was never touched.
C5_Witness ==
    /\ pc = "idle"
    /\ getKeyReleased(65)
    /\ InBounds(m_clearColor, Len(m_palette))
    /\ GLFW_KEY_ESCAPE \notin everKey

(* ---------------------- drawing calls (later revision) ----------------- *)

\* m_offset, added to every vertex by the line and point calls.
m_offset == <<0, 0>>

\* 2^64 modulo size, computed inside 32 bits.
TwoPow64Mod(size) ==
    LET p16 == 65536 % size
        p32 == (p16 * p16) % size
    IN  (p32 * p32) % size

\* index = index % m_palette.size(): the int is converted to size_t (64 bits,
\* unsigned), the remainder taken and converted back.
WrapIndex_Mut(index, size) == index

WrapIndex(index, size) ==
    IF index >= 0 THEN index % size
    ELSE (TwoPow64Mod(size) + (index % size)) % size

\* assert(index >= 0 && index < m_palette.size())
IndexAssert_Mut(index, size) == index >= 0 /\ index <= size

IndexAssert(index, size) == index >= 0 /\ index < size

\* assert(mapWidth != 0), assert(mapHeight != 0)
NonZeroAssert_Mut(n) == TRUE

NonZeroAssert(n) == n # 0

\* The cells of a grid in the order the nested loops visit them.
RECURSIVE Cells(_)
Cells(rows) == IF rows = <<>> THEN <<>> ELSE Head(rows) \o Cells(Tail(rows))

\* The four push_back calls of one cell.
Bytes(color) == <<color.r, color.g, color.b, color.a>>

\* m_palette[index] behind an assertion.
PaletteAt(palette, index) ==
    IF InBounds(index, Len(palette)) THEN palette[index + 1] ELSE GarbageRGBA

\* heatToRGB(heat, valueMin, valueMax): a ramp from blue to red.
heatToRGB(heat, valueMin, valueMax) ==
    LET t == IF heat <= valueMin THEN 0
             ELSE IF heat >= valueMax THEN 255
             ELSE ((heat - valueMin) * 255) \div (valueMax - valueMin)
    IN  [r |-> t, g |-> 0, b |-> 255 - t, a |-> 255]

Ok(data, trace) ==
    [kind |-> "ok", failAt |-> 0, failCell |-> -1, data |-> data, trace |-> trace]

Failed(kind, line, cell, trace) ==
    [kind |-> kind, failAt |-> line, failCell |-> cell, data |-> <<>>, trace |-> trace]

\* The cell loop of drawPixels, from cell k on (1-based). With an empty
\* palette the remainder divides by zero: the division faults (zeroDivFaults)
\* or leaves the index as it was.
RECURSIVE PixelsLoop(_, _, _, _, _, _)
PixelsLoop(palette, cells, k, data, trace, zeroDivFaults) ==
    IF k > Len(cells) THEN Ok(data, trace)
    ELSE IF Len(palette) = 0 /\ zeroDivFaults THEN Failed("fault", 1239, k - 1, trace)
    ELSE LET index == IF Len(palette) = 0 THEN cells[k]
                      ELSE WrapIndex(cells[k], Len(palette))
         IN  IF ~IndexAssert(index, Len(palette))
             THEN Failed("assert", 1240, k - 1, trace)
             ELSE PixelsLoop(palette, cells, k + 1,
                             data \o Bytes(PaletteAt(palette, index)),
                             Append(trace, Eff("m_palette[]", index)), zeroDivFaults)

\* The cell loop of drawSprite (Grid overload), from cell k on.
RECURSIVE SpriteLoop(_, _, _, _, _)
SpriteLoop(palette, cells, k, data, trace) ==
    IF k > Len(cells) THEN Ok(data, trace)
    ELSE IF ~IndexAssert(cells[k], Len(palette))
         THEN Failed("assert", 1339, k - 1, trace)
         ELSE SpriteLoop(palette, cells, k + 1,
                         data \o Bytes(PaletteAt(palette, cells[k])),
                         Append(trace, Eff("m_palette[]", cells[k])))

\* The cell loop of drawRGB(map).
RECURSIVE RGBLoop(_, _, _)
RGBLoop(cells, k, data) ==
    IF k > Len(cells) THEN Ok(data, <<>>)
    ELSE RGBLoop(cells, k + 1, data \o Bytes(cells[k]))

\* The cell loop of drawHeatMap.
RECURSIVE HeatLoop(_, _, _, _, _)
HeatLoop(cells, k, data, valueMin, valueMax) ==
    IF k > Len(cells) THEN Ok(data, <<>>)
    ELSE HeatLoop(cells, k + 1, data \o Bytes(heatToRGB(cells[k], valueMin, valueMax)),
                  valueMin, valueMax)

\* From the two assertions on the map's size to the Texture built from it;
\* widthLine is the line of assert(mapWidth != 0).
MapTexture(loop, mapWidth, mapHeight, widthLine) ==
    IF loop.kind # "ok" THEN loop
    ELSE IF ~NonZeroAssert(mapWidth) THEN Failed("assert", widthLine, -1, loop.trace)
    ELSE IF ~NonZeroAssert(mapHeight) THEN Failed("assert", widthLine + 1, -1, loop.trace)
    ELSE IF mapHeight = 0 THEN Failed("fault", widthLine + 2, -1, loop.trace)
    ELSE Ok(loop.data,
            Append(loop.trace,
                   Eff("Texture", [width |-> mapWidth \div mapHeight, height |-> mapHeight,
                                   nrChannels |-> 4, data |-> loop.data])))

\* drawPixels(pixels)
drawPixels(palette, rows, zeroDivFaults) ==
    LET loop == PixelsLoop(palette, Cells(rows), 1, <<>>,
                           << Eff("glfwMakeContextCurrent", m_window) >>, zeroDivFaults)
        tex  == MapTexture(loop, Len(Cells(rows)), Len(rows), 1249)
    IN  IF tex.kind # "ok" THEN tex
        ELSE Ok(tex.data, tex.trace \o DrawScreenSizeQuadTrace("texture"))

\* drawRGB(map)
drawRGB(rows) ==
    LET loop == RGBLoop(Cells(rows), 1, <<>>)
        tex  == MapTexture([loop EXCEPT !.trace = << Eff("glfwMakeContextCurrent", m_window) >>],
                           Len(Cells(rows)), Len(rows), 1272)
    IN  IF tex.kind # "ok" THEN tex
        ELSE Ok(tex.data, tex.trace \o DrawScreenSizeQuadTrace("texture"))

\* drawRGB(width, height, rgb): three bytes a pixel, the size checked against
\* the vector's.
drawRGBBytes(width, height, rgb) ==
    LET entry == << Eff("glfwMakeContextCurrent", m_window) >>
    IN  IF width * height * 3 # Len(rgb) THEN Failed("assert", 1281, -1, entry)
        ELSE Ok(rgb,
                Append(entry, Eff("Texture", [width |-> width, height |-> height,
                                              nrChannels |-> 3, data |-> rgb]))
                \o DrawScreenSizeQuadTrace("texture"))

\* drawHeatMap(pixels, valueMin, valueMax)
drawHeatMap(rows, valueMin, valueMax) ==
    LET loop == HeatLoop(Cells(rows), 1, <<>>, valueMin, valueMax)
        tex  == MapTexture([loop EXCEPT !.trace = << Eff("glfwMakeContextCurrent", m_window) >>],
                           Len(Cells(rows)), Len(rows), 1304)
    IN  IF tex.kind # "ok" THEN tex
        ELSE Ok(tex.data, tex.trace \o DrawScreenSizeQuadTrace("texture"))

\* The matrix flattening loops of the drawSprite overloads.
RECURSIVE Flatten(_)
Flatten(transform) ==
    IF transform = <<>> THEN <<>> ELSE Head(transform) \o Flatten(Tail(transform))

\* drawSprite(M, texture, inputConstants, surfaceShader, globals)
SpriteDrawTrace(M, texture, constants) ==
    << Eff("glfwMakeContextCurrent", m_window),
       Eff("Shader", [vs |-> "modelProjectionVSSource", constants |-> constants]),
       Eff("setUniformm", "P"),
       Eff("setUniformm", M),
       Eff("setUniform", "texture0"),
       Eff("glBindTexture", texture) >>
    \o [i \in 1..Len(constants) |-> Eff("setUniformv", constants[i])]
    \o << Eff("quad::render", "m_sprite") >>

\* drawSprite(transform, texture, surfaceShader, globals), texture being a
\* live Texture of the caller's: the matrix is flattened and the sprite drawn
\* with no constants.
drawSpriteTexture(transform, texture) ==
    Ok(<<>>, SpriteDrawTrace(Flatten(transform), texture, <<>>))

\* if(pixels.size()==0): the grid is replaced by one white pixel.
SpriteSubstitute_Mut(rows) == FALSE

SpriteSubstitute(rows) == Len(rows) = 0

\* drawSprite(transform, pixels, inputConstants, surfaceShader, globals)
drawSpriteGrid(palette, transform, rows, constants) ==
    LET loop == SpriteLoop(palette, Cells(rows), 1, <<>>,
                           << Eff("glfwMakeContextCurrent", m_window) >>)
        none == SpriteSubstitute(rows)
        tex  == MapTexture(IF none /\ loop.kind = "ok"
                           THEN [loop EXCEPT !.data = loop.data \o <<255, 255, 255, 255>>]
                           ELSE loop,
                           IF none THEN 1 ELSE Len(Cells(rows)),
                           IF none THEN 1 ELSE Len(rows), 1355)
    IN  IF tex.kind # "ok" THEN tex
        ELSE Ok(tex.data, tex.trace \o SpriteDrawTrace(Flatten(transform), "texture", constants))

\* The glVertex2f calls of a list of points.
Vertices(points) ==
    [i \in 1..Len(points) |->
        Eff("glVertex2f", <<points[i][1] + m_offset[1], points[i][2] + m_offset[2]>>)]

\* A call that sets the GL colour from m_palette[color] with no check, then
\* draws: setup before the read, body after it; line is the line of the read.
ColourCall(setup, color, rd, body, line) ==
    LET head == << Eff("glfwMakeContextCurrent", m_window) >> \o setup
                \o << Eff("m_palette[]", color) >>
    IN  IF rd.fault THEN Failed("fault", line, -1, head)
        ELSE Ok(<<>>, head \o << Eff("glColor4f", rd.value) >> \o body)

\* drawLines(lines, color, lineWidth, drawStrips)
drawLines(lines, color, lineWidth, drawStrips, rd) ==
    ColourCall(<< Eff("glLineWidth", lineWidth) >>, color, rd,
               << Eff("glBegin", IF drawStrips THEN "GL_LINE_STRIP" ELSE "GL_LINES") >>
               \o Vertices(lines) \o << Eff("glEnd", 0) >>, 1317)

\* drawPoints(points, color, pointSize)
drawPoints(points, color, pointSize, rd) ==
    ColourCall(<< Eff("glPointSize", pointSize) >>, color, rd,
               << Eff("glBegin", "GL_POINTS") >> \o Vertices(points)
               \o << Eff("glEnd", 0) >>, 1406)

\* drawCircle(pos, r, color, lineWidth, numSegments): one vertex per segment.
drawCircle(numSegments, color, lineWidth, rd) ==
    ColourCall(<< Eff("glLineWidth", lineWidth) >>, color, rd,
               << Eff("glBegin", "GL_LINE_LOOP") >>
               \o [i \in 1..numSegments |-> Eff("glVertex2f", i - 1)]
               \o << Eff("glEnd", 0) >>, 1423)

\* drawFunction(f, color, lineWidth): one vertex every fourth pixel column.
drawFunction(color, lineWidth, rd) ==
    ColourCall(<< Eff("glLineWidth", lineWidth) >>, color, rd,
               << Eff("glBegin", "GL_LINE_STRIP") >>
               \o [i \in 1..((FramebufferSize.width + 3) \div 4) |->
                      Eff("glVertex2f", 4 * (i - 1))]
               \o << Eff("glEnd", 0) >>, 1388)

\* The two loops of drawAxis filling the thin lines: a vertical line at every
\* whole x in [startX, maxX), then a horizontal one at every whole y in
\* [startY, maxY), each from one unit outside the range to one unit outside.
AxisThinLines(startX, maxX, startY, maxY) ==
    LET nx == IF maxX > startX THEN maxX - startX ELSE 0
        ny == IF maxY > startY THEN maxY - startY ELSE 0
    IN  [i \in 1..(2 * nx) |->
            IF i % 2 = 1 THEN <<startX + (i - 1) \div 2, startY - 1>>
            ELSE <<startX + (i - 2) \div 2, maxY + 1>>]
        \o [i \in 1..(2 * ny) |->
                IF i % 2 = 1 THEN <<startX - 1, startY + (i - 1) \div 2>>
                ELSE <<maxX + 1, startY + (i - 2) \div 2>>]

\* The thick lines of drawAxis: the x axis, then the y axis.
AxisThickLines(startX, maxX, startY, maxY) ==
    << <<startX - 1, 0>>, <<maxX + 1, 0>>, <<0, startY - 1>>, <<0, maxY + 1>> >>

\* drawAxis(thickColor, thinColor, thick, thin): the lines computed from the
\* range (whole-valued here, so the casts to int change nothing), the thin
\* grid drawn first, then the axes.
drawAxis(w, thickColor, thinColor, thick, thin, rdThin, rdThick) ==
    LET entry  == << Eff("glfwMakeContextCurrent", w.window) >>
        first  == drawLines(AxisThinLines(w.left, w.right, w.bottom, w.top),
                            thinColor, thin, FALSE, rdThin)
        second == drawLines(AxisThickLines(w.left, w.right, w.bottom, w.top),
                            thickColor, thick, FALSE, rdThick)
    IN  IF first.kind # "ok" THEN [first EXCEPT !.trace = entry \o first.trace]
        ELSE [second EXCEPT !.trace = entry \o first.trace \o second.trace]

(* ---------------------- SpecDraw: one drawing call --------------------- *)

\* Rows of at most c cells over the values V.
RowsUpTo(c, V) == UNION {[1..n -> V] : n \in 0..c}

\* Grids of at most r rows and c cells in all, ragged ones included.
RECURSIVE GridsOf(_, _, _)
GridsOf(r, c, V) ==
    IF r = 0 THEN {<<>>}
    ELSE {<<>>} \cup UNION {{<<row>> \o g : g \in GridsOf(r - 1, c - Len(row), V)} :
                               row \in RowsUpTo(c, V)}

\* The grid arguments tried for a palette of the given size: Grids of indices
\* from -1 to size.
GridArgs(size) ==
    {[type |-> "Grid", rows |-> g] : g \in GridsOf(MaxRows, MaxCells, (-1)..size)}

\* The RGBA maps tried.
RGBAMapArgs ==
    {[type |-> "RGBAMap", rows |-> g] : g \in GridsOf(MaxRows, MaxCells, {PaletteEntry(1)})}

\* The heat maps tried.
HeatMapArgs ==
    {[type |-> "HeatMap", rows |-> g] : g \in GridsOf(MaxRows, MaxCells, {0, 3})}

\* The arguments tried for drawRGB(width, height, rgb): sizes that agree with
\* the vector's length and sizes that do not.
RGBArgs ==
    {[type |-> "RGB", rows |-> [i \in 1..n |-> 5], width |-> w, height |-> h] :
        w \in 0..MaxCells, h \in 0..MaxRows, n \in 0..(3 * MaxCells)}

ColorArgs == (-1)..Len(m_palette)

SamplePoints == << <<0, 0>>, <<1, 2>> >>

IdentityTransform == << <<1, 0>>, <<0, 1>> >>

\* A drawing call ending: returning, or taking the process down; fbo is what
\* the off-screen buffer holds once the call has returned.
FinishOn(op, arg, res, fbo) ==
    /\ last' = [op |-> op, arg |-> arg, ret |-> IF res.kind = "ok" THEN "void" ELSE "none",
                failAt |-> res.failAt, failCell |-> res.failCell, trace |-> res.trace]
    /\ status' = IF res.kind = "ok" THEN "running"
                 ELSE IF res.kind = "assert" THEN "aborted" ELSE "crashed"
    /\ pc' = IF res.kind = "ok" THEN "idle" ELSE "dead"
    /\ m_shadeFbo' = (IF res.kind = "ok" THEN fbo ELSE m_shadeFbo)
    /\ ConfigUnchanged /\ ArgsUnchanged /\ HistoryUnchanged
    /\ UNCHANGED <<screen, m_curKeys, m_prevKeys, m_screenshotFileName, closeFlag, nEvents>>
    /\ ctx' = ContextAfter(last'.trace, ctx)

\* A drawing call that leaves the off-screen buffer alone ending.
Finish(op, arg, res) == FinishOn(op, arg, res, m_shadeFbo)

ToCall == Idle /\ last.op = "none"

DrawPixels ==
    /\ ToCall /\ pixels.type = "Grid"
    /\ \E zeroDivFaults \in IF Len(m_palette) = 0 /\ Cells(pixels.rows) # <<>>
                            THEN BOOLEAN ELSE {FALSE} :
          Finish("drawPixels", <<>>, drawPixels(m_palette, pixels.rows, zeroDivFaults))

DrawRGB ==
    /\ ToCall /\ pixels.type = "RGBAMap"
    /\ Finish("drawRGB", <<>>, drawRGB(pixels.rows))

DrawRGBBytes ==
    /\ ToCall /\ pixels.type = "RGB"
    /\ Finish("drawRGB(width,height,rgb)", <<pixels.width, pixels.height>>,
              drawRGBBytes(pixels.width, pixels.height, pixels.rows))

DrawHeatMap ==
    /\ ToCall /\ pixels.type = "HeatMap"
    /\ Finish("drawHeatMap", <<>>, drawHeatMap(pixels.rows, 0, 2))

DrawSpriteGrid ==
    /\ ToCall /\ pixels.type = "Grid"
    /\ Finish("drawSprite", <<>>,
              drawSpriteGrid(m_palette, IdentityTransform, pixels.rows, inputConstants))

DrawSpriteTexture ==
    /\ ToCall
    /\ Finish("drawSprite(Texture)", <<>>, drawSpriteTexture(IdentityTransform, "texture"))

DrawLines ==
    /\ ToCall
    /\ \E color \in ColorArgs : \E rd \in UncheckedReads(m_palette, color) :
          Finish("drawLines", color, drawLines(SamplePoints, color, 1, FALSE, rd))

DrawPoints ==
    /\ ToCall
    /\ \E color \in ColorArgs : \E rd \in UncheckedReads(m_palette, color) :
          Finish("drawPoints", color, drawPoints(SamplePoints, color, 1, rd))

DrawCircle ==
    /\ ToCall
    /\ \E color \in ColorArgs : \E rd \in UncheckedReads(m_palette, color) :
          Finish("drawCircle", color, drawCircle(3, color, 1, rd))

DrawFunction ==
    /\ ToCall
    /\ \E color \in ColorArgs : \E rd \in UncheckedReads(m_palette, color) :
          Finish("drawFunction", color, drawFunction(color, 1, rd))

DrawAxis ==
    /\ ToCall
    /\ \E thickColor \in ColorArgs, thinColor \in ColorArgs :
       \E rdThin \in UncheckedReads(m_palette, thinColor),
          rdThick \in UncheckedReads(m_palette, thickColor) :
          Finish("drawAxis", <<thickColor, thinColor>>,
                 drawAxis(Members, thickColor, thinColor, 2, 1, rdThin, rdThick))

InitDraw ==
    /\ \E palette \in Palettes :
          /\ Constructed(palette, 0)
          /\ \/ pixels \in GridArgs(Len(palette))
             \/ pixels \in RGBAMapArgs
             \/ pixels \in HeatMapArgs
             \/ pixels \in RGBArgs
    /\ inputConstants = <<>>

NextDraw ==
    \/ DrawPixels
    \/ DrawRGB
    \/ DrawHeatMap
    \/ DrawSpriteGrid
    \/ DrawRGBBytes
    \/ DrawSpriteTexture
    \/ DrawLines
    \/ DrawPoints
    \/ DrawCircle
    \/ DrawFunction
    \/ DrawAxis

SpecDraw == InitDraw /\ [][NextDraw]_vars

(* --------------- shader constants (earlier revision) ------------------- *)

\* The GLSL type declared for a value vector of the given length ("": none,
\* the else branch with assert(0)).
UniformType_Mut(size) ==
    IF size = 1 THEN "float"
    ELSE IF size = 2 THEN "vec2"
    ELSE IF size = 3 THEN "vec3"
    ELSE "vec4"

UniformType(size) ==
    IF size = 1 THEN "float"
    ELSE IF size = 2 THEN "vec2"
    ELSE IF size = 3 THEN "vec3"
    ELSE IF size = 4 THEN "vec4"
    ELSE ""

\* The loop building inputUniforms, from constant k on; a declaration
\* "uniform <type> <name>;\n" is kept as the pair <<type, name>>. line is the
\* line of the loop's assert(0).
RECURSIVE InputUniforms(_, _, _, _)
InputUniforms(constants, k, decls, line) ==
    IF k > Len(constants) THEN Ok(decls, <<>>)
    ELSE LET type == UniformType(Len(constants[k].val))
         IN  IF type = "" THEN Failed("assert", line, k - 1, <<>>)
             ELSE InputUniforms(constants, k + 1,
                                Append(decls, <<type, constants[k].name>>), line)

\* The setUniformv calls of the constants.
SetConstants(constants) ==
    [i \in 1..Len(constants) |-> Eff("setUniformv", constants[i].name)]

\* shade(inputConstants, fragmentShaderMain, globals), earlier revision
shadeV1(constants) ==
    LET uniforms == InputUniforms(constants, 1, <<>>, 637)
    IN  IF uniforms.kind # "ok" THEN uniforms
        ELSE Ok(uniforms.data,
                << Eff("Shader", uniforms.data),
                   Eff("bind", "shader"),
                   Eff("setUniformm", "M"),
                   Eff("setUniformv", "leftBottom"),
                   Eff("setUniformv", "rightTop"),
                   Eff("setUniform", "min"),
                   Eff("setUniform", "max"),
                   Eff("setUniform", "size") >>
                \o SetConstants(constants)
                \o << Eff("glBindFramebuffer", "m_shadeFbo"),
                      Eff("glDrawArrays", "m_ssqVao"),
                      Eff("glFinish", 0),
                      Eff("glBindFramebuffer", 0),
                      Eff("unbind", "shader") >>)

\* drawSprite(M, texture, inputConstants, surfaceShader, globals), earlier revision
drawSpriteV1(M, texture, constants) ==
    LET uniforms == InputUniforms(constants, 1, <<>>, 755)
    IN  IF uniforms.kind # "ok" THEN uniforms
        ELSE Ok(uniforms.data,
                << Eff("Shader", uniforms.data),
                   Eff("bind", "spriteShader"),
                   Eff("setUniformm", "P"),
                   Eff("setUniformm", M),
                   Eff("setUniform", "texture0"),
                   Eff("glBindTexture", texture) >>
                \o SetConstants(constants)
                \o << Eff("glDrawArrays", "m_spriteVao"),
                      Eff("unbind", "spriteShader"),
                      Eff("glFinish", 0) >>)

(* --------------------- SpecV1: one shader call ------------------------- *)

ConstantNames == {"speed", "tint"}

\* Constants whose value vectors hold 0..MaxValLen floats.
ConstantValues ==
    {[name |-> n, val |-> [i \in 1..len |-> 0]] : n \in ConstantNames, len \in 0..MaxValLen}

ConstantLists == UNION {[1..n -> ConstantValues] : n \in 0..MaxConstants}

ShadeV1 ==
    /\ ToCall
    /\ FinishOn("shadeV1", <<>>, shadeV1(inputConstants), "shaded")

DrawSpriteV1 ==
    /\ ToCall
    /\ Finish("drawSpriteV1", <<>>,
              drawSpriteV1(Flatten(IdentityTransform), "texture", inputConstants))

InitV1 ==
    /\ \E palette \in Palettes : Constructed(palette, 0)
    /\ pixels = NoGrid
    /\ inputConstants \in ConstantLists

NextV1 ==
    \/ ShadeV1
    \/ DrawSpriteV1

SpecV1 == InitV1 /\ [][NextV1]_vars

(* ------------------------ claims: drawing calls ------------------------ *)

\* A palette index outside [0, palette size).
OutOfRange(index) == index < 0 \/ index >= Len(m_palette)

\* The cells of the grid argument, row by row.
GridCells == Cells(pixels.rows)

BadCells == {i \in 1..Len(GridCells) : OutOfRange(GridCells[i])}

\* The first cell, in row-major order, holding an out-of-range index.
FirstBadCell == CHOOSE i \in BadCells : \A j \in BadCells : i <= j

NoTextureNoDraw ==
    /\ Count(last.trace, "Texture") = 0
    /\ Count(last.trace, "Shader") = 0
    /\ Count(last.trace, "quad::render") = 0

\* The index in 0..size-1 that an int index has as an unsigned 64-bit value
\* modulo size.
Reduced(index, size) ==
    CHOOSE j \in 0..(size - 1) :
        IF index >= 0 THEN (index - j) % size = 0
        ELSE (TwoPow64Mod(size) + index - j) % size = 0

\* C6 as stated: drawPixels on a grid holding an out-of-range palette index
\* ends in an assertion failure, with no texture created and no draw call
\* issued (stated for windows with a non-empty palette).
C6_DrawPixelsAsserts ==
    (last.op = "drawPixels" /\ BadCells # {} /\ Len(m_palette) > 0)
        => (status = "aborted" /\ NoTextureNoDraw)

\* C6 as amended: drawPixels reduces every index modulo the palette size (as
\* an unsigned 64-bit value) before its range assertion. With a non-empty
\* palette a grid holding an out-of-range index fails no assertion: every
\* cell takes the palette entry at its reduced index, one texture is created
\* from those entries and one draw call is issued. Only with an empty palette
\* does the call end at its first cell (division by zero, or the assertion),
\* before any texture or draw call.
C6_DrawPixelsWraps ==
    (last.op = "drawPixels" /\ BadCells # {})
        => IF Len(m_palette) = 0
           THEN /\ status \in {"aborted", "crashed"}
                /\ last.failAt \in {1239, 1240}
                /\ last.failCell = 0
                /\ NoTextureNoDraw
           ELSE /\ status = "running"
                /\ last.failAt = 0
                /\ ArgsOf(last.trace, "m_palette[]")
                     = [i \in 1..Len(GridCells) |-> Reduced(GridCells[i], Len(m_palette))]
                /\ Count(last.trace, "Texture") = 1
                /\ Count(last.trace, "quad::render") = 1
                /\ Len(ArgsOf(last.trace, "Texture")[1].data) = 4 * Len(GridCells)
                /\ \A i \in 1..Len(GridCells) :
                      SubSeq(ArgsOf(last.trace, "Texture")[1].data, 4 * i - 3, 4 * i)
                        = Bytes(m_palette[Reduced(GridCells[i], Len(m_palette)) + 1])

\* drawPixels drew a grid holding both -1 and 2 with a palette of two entries.
C6_Witness ==
    /\ last.op = "drawPixels" /\ status = "running"
    /\ Len(m_palette) = 2
    /\ \E i, j \in 1..Len(GridCells) : GridCells[i] = -1 /\ GridCells[j] = 2
    /\ Count(last.trace, "Texture") = 1

\* C7: every call taking a single palette index - the colour of drawLines,
\* drawPoints, drawCircle, drawFunction and drawAxis, and the background
\* index read by update() - ends in an assertion failure or abort when the
\* index is out of range, before the palette is read at it (stated for
\* windows with a non-empty palette).
C7_SingleIndexChecked ==
    Len(m_palette) > 0 =>
        /\ (last.op \in {"drawLines", "drawPoints", "drawCircle", "drawFunction"}
              /\ OutOfRange(last.arg))
             => (status = "aborted" /\ Count(last.trace, "m_palette[]") = 0)
        /\ (last.op = "drawAxis" /\ (OutOfRange(last.arg[1]) \/ OutOfRange(last.arg[2])))
             => (status = "aborted"
                 /\ \A i \in 1..Count(last.trace, "m_palette[]") :
                       ~OutOfRange(ArgsOf(last.trace, "m_palette[]")[i]))
        /\ (last.op = "update" /\ Count(last.trace, "glfwSwapBuffers") = 1
              /\ OutOfRange(m_clearColor))
             => (status = "aborted" /\ Count(last.trace, "m_palette[]") = 0)

\* C8: drawSprite on a Grid holding an out-of-range palette index ends in the
\* assertion failure of its cell loop at the first such cell in row-major
\* order: the cells before it, and no others, were looked up in the palette,
\* and no texture or shader was created and no draw call issued.
C8_SpriteAssertsAtFirstBadCell ==
    (last.op = "drawSprite" /\ BadCells # {})
        => /\ status = "aborted"
           /\ last.failAt = 1339
           /\ last.failCell = FirstBadCell - 1
           /\ ArgsOf(last.trace, "m_palette[]") = SubSeq(GridCells, 1, FirstBadCell - 1)
           /\ NoTextureNoDraw

\* drawSprite failed its assertion at a cell of the second row, after valid cells.
C8_Witness ==
    /\ last.op = "drawSprite" /\ status = "aborted" /\ last.failAt = 1339
    /\ Len(pixels.rows) = 2
    /\ Len(pixels.rows[1]) >= 1
    /\ last.failCell >= Len(pixels.rows[1])

\* The line of assert(mapWidth != 0) in each call.
WidthAssertLine(op) ==
    IF op = "drawPixels" THEN 1249 ELSE IF op = "drawRGB" THEN 1272 ELSE 1304

\* C9: drawPixels, drawRGB(map) and drawHeatMap on a grid with no rows, or
\* whose rows hold no cells in all, end in the failure of the assertion on the
\* map's width, before any texture is created or draw call issued.
C9_EmptyGridAsserts ==
    (last.op \in {"drawPixels", "drawRGB", "drawHeatMap"} /\ GridCells = <<>>)
        => /\ status = "aborted"
           /\ last.failAt = WidthAssertLine(last.op)
           /\ NoTextureNoDraw

\* drawHeatMap failed its assertion on a grid of two empty rows.
C9_Witness ==
    /\ last.op = "drawHeatMap" /\ status = "aborted"
    /\ Len(pixels.rows) = 2 /\ GridCells = <<>>

(* ----------------- claims: shader constants (earlier revision) --------- *)

GLSLTypes == <<"float", "vec2", "vec3", "vec4">>

BadConstants == {i \in 1..Len(inputConstants) : Len(inputConstants[i].val) \notin 1..4}

\* C10: shade and drawSprite of the earlier revision declare, for each
\* constant, a uniform of type float, vec2, vec3 or vec4 by a value-vector
\* length of 1, 2, 3 or 4, and end in an assertion failure at the first
\* constant whose length is outside 1..4, before any shader is compiled or
\* draw call issued.
C10_UniformDecls ==
    last.op \in {"shadeV1", "drawSpriteV1"}
        => IF BadConstants = {}
           THEN /\ status = "running"
                /\ ArgsOf(last.trace, "Shader")
                     = << [i \in 1..Len(inputConstants) |->
                             <<GLSLTypes[Len(inputConstants[i].val)], inputConstants[i].name>>] >>
                /\ Count(last.trace, "glDrawArrays") = 1
           ELSE /\ status = "aborted"
                /\ last.failAt = (IF last.op = "shadeV1" THEN 637 ELSE 755)
                /\ last.failCell + 1 \in BadConstants
                /\ \A i \in BadConstants : last.failCell + 1 <= i
                /\ Count(last.trace, "Shader") = 0
                /\ Count(last.trace, "glDrawArrays") = 0

\* shade failed its assertion at the second constant, the first being valid.
C10_Witness ==
    /\ last.op = "shadeV1" /\ status = "aborted"
    /\ last.failCell = 1
    /\ Len(inputConstants[1].val) = 4


(* ------------------ claims: construction and destruction --------------- *)

\* The constructor got as far as glfwCreateWindow, which returned null.
CreationFailed ==
    /\ last.op = "Window"
    /\ Count(last.trace, "glfwCreateWindow") = 1
    /\ ~last.arg.createWindow

\* C11: when window creation fails the constructor throws at once: there is
\* no Window object, no context was made current, no key callback installed,
\* and no shader, quad mesh, framebuffer or texture created.
C11_CreationFailureThrows ==
    CreationFailed
        => /\ last.ret = "Failed to create window!"
           /\ object = "none"
           /\ m_shadeFbo = "none"
           /\ Len(last.trace) = 1
           /\ \A cmd \in {"glfwMakeContextCurrent", "glfwSetKeyCallback", "Shader",
                          "quad::create", "FrameBuffer", "Texture", "setUniformm"} :
                 Count(last.trace, cmd) = 0

\* A construction failed at window creation after an earlier one had succeeded.
C11_Witness ==
    /\ CreationFailed
    /\ last.ret = "Failed to create window!"
    /\ nWindows = 2
    /\ Count(libLog, "glfwInit") = 1


(* --------- SpecOps: the operations of a window in any order ------------- *)

\* shade(inputConstants, fragmentShaderMain, globals): the members and the
\* off-screen buffer it leaves, and the calls it makes.
shade(w, constants) ==
    [w |-> w, fbo |-> "shaded",
     trace |-> << Eff("glfwMakeContextCurrent", w.window),
                  Eff("Shader", Len(constants)),
                  Eff("glBindFramebuffer", "m_shadeFbo"),
                  Eff("setUniformm", "M"),
                  Eff("setUniformv", "leftBottom"),
                  Eff("setUniformv", "rightTop"),
                  Eff("setUniform", "min"),
                  Eff("setUniform", "max"),
                  Eff("setUniform", "size") >>
               \o SetConstants(constants)
               \o << Eff("quad::render", "m_ssq") >>]

\* A call that only touches members and the off-screen buffer returning.
Returned(op, arg, w, fbo, trace) ==
    /\ Assign(w)
    /\ m_shadeFbo' = fbo
    /\ last' = [NoCall EXCEPT !.op = op, !.arg = arg, !.ret = "void", !.trace = trace]
    /\ LoopUnchanged /\ ArgsUnchanged /\ HistoryUnchanged /\ LibUnchanged
    /\ UNCHANGED <<pc, status, screen, m_textures, object, nWindows, lastRange>>
    /\ ctx' = ContextAfter(last'.trace, ctx)
    /\ UNCHANGED held

\* setScreenSize(10, 7)
SetScreenSize ==
    /\ Idle
    /\ Returned("setScreenSize", <<10, 7>>, setScreenSize(Members, 10, 7), m_shadeFbo,
                << Eff("glfwSetWindowSize", <<10, 7>>) >>)

\* setScreenPosition(3, 4)
SetScreenPosition ==
    /\ Idle
    /\ Returned("setScreenPosition", <<3, 4>>, setScreenPosition(Members, 3, 4), m_shadeFbo,
                << Eff("glfwSetWindowPos", <<3, 4>>) >>)

\* shade(inputConstants, fragmentShaderMain, globals)
Shade ==
    /\ Idle
    /\ LET shaded == shade(Members, inputConstants)
       IN  Returned("shade", <<>>, shaded.w, shaded.fbo, shaded.trace)

\* One of the drawing calls, with arguments it accepts.
Draw ==
    /\ Idle
    /\ \E rd \in UncheckedReads(m_palette, 0) :
          \/ Finish("drawPixels", <<>>, drawPixels(m_palette, << <<0, 1>> >>, FALSE))
          \/ Finish("drawRGB", <<>>, drawRGB(<< <<PaletteEntry(1)>> >>))
          \/ Finish("drawRGB(width,height,rgb)", <<1, 1>>, drawRGBBytes(1, 1, <<5, 5, 5>>))
          \/ Finish("drawHeatMap", <<>>, drawHeatMap(<< <<0, 3>> >>, 0, 2))
          \/ Finish("drawSprite(Texture)", <<>>,
                    drawSpriteTexture(IdentityTransform, "texture"))
          \/ Finish("drawSprite", <<>>,
                    drawSpriteGrid(m_palette, IdentityTransform, << <<0, 1>> >>, inputConstants))
          \/ Finish("drawLines", 0, drawLines(SamplePoints, 0, 1, FALSE, rd))
          \/ Finish("drawPoints", 0, drawPoints(SamplePoints, 0, 1, rd))
          \/ Finish("drawCircle", 0, drawCircle(3, 0, 1, rd))
          \/ Finish("drawFunction", 0, drawFunction(0, 1, rd))
          \/ Finish("drawAxis", <<0, 0>>,
                    drawAxis(Members, 0, 0, 2, 1, rd, rd))

\* Ranges for setScreen: centred, and reversed off-centre.
SampleRanges == {<<-1, 1, -1, 1>>, <<2, 1, 0, -2>>}

InitOps ==
    /\ \E clearColor \in (-1)..MaxPalette :
          ConstructedIn([i \in 1..MaxPalette |-> PaletteEntry(i)], clearColor, FairWeather)
    /\ range \in SampleRanges
    /\ pixels = NoGrid
    /\ inputConstants = <<>>

NextOps ==
    \/ SetScreen
    \/ SetScreenPixels
    \/ SetScreenSize
    \/ SetScreenPosition
    \/ Shade
    \/ Draw
    \/ \E k \in 1..Len(TextureFiles), loadable \in BOOLEAN :
          LoadTexture(TextureFiles[k], loadable, FALSE)
    \/ UpdateCall
    \/ WindowCloseRequest
    \/ UpdateFrame
    \/ UpdateReturn

SpecOps == InitOps /\ [][NextOps]_vars

(* ----------------- SpecTwo: two Window objects, one thread -------------- *)

\* The caller turning to its other Window object: the member variables hold
\* the object the next call is made on, and other holds the one left aside.
\* Nothing is called, so the current context stays as it is.
Select ==
    /\ status = "running" /\ pc = "idle"
    /\ object = "alive" \/ other.object = "alive"
    /\ other' = [w |-> Members, textures |-> m_textures, fbo |-> m_shadeFbo,
                 object |-> object, held |-> held]
    /\ held' = other.held
    /\ Assign(other.w)
    /\ m_textures' = other.textures
    /\ m_shadeFbo' = other.fbo
    /\ object' = other.object
    /\ LoopUnchanged /\ ArgsUnchanged /\ HistoryUnchanged
    /\ UNCHANGED <<init, glfwUp, audioUp, libLog, pc, status, screen, nWindows,
                   lastRange, last, ctx>>

InitTwo ==
    /\ ConstructedIn([i \in 1..MaxPalette |-> PaletteEntry(i)], 0, FairWeather)
    /\ range = <<-1, 1, -1, 1>>
    /\ pixels = NoGrid
    /\ inputConstants = <<>>

NextTwo ==
    \/ Select
    \/ Construct(FairWeather)
    \/ \E k \in 1..Len(TextureFiles), loadable \in BOOLEAN :
          LoadTexture(TextureFiles[k], loadable, FALSE)
    \/ SetScreen
    \/ Shade
    \/ Draw
    \/ Destroy

SpecTwo == InitTwo /\ [][NextTwo]_vars

(* --------------------- claims: range and projection -------------------- *)

\* C12: after the constructor and any sequence of setScreen calls the stored
\* projection matrix has exactly 16 entries and is the matrix of the most
\* recent arguments, the one the earlier revision's setScreen leaves, and it
\* is the matrix the call returned.
C12_ProjectionCurrent ==
    object = "alive"
        => /\ Len(m_projection) = 16
           /\ m_projection = Projection(lastRange[1], lastRange[2], lastRange[3], lastRange[4])
           /\ m_projection = setScreenV1(Members, lastRange[1], lastRange[2],
                                         lastRange[3], lastRange[4]).projection
           /\ last.op = "setScreen" => last.ret = m_projection

\* The model matrix that leaves every vertex where it is.
Identity4 == [n \in 1..16 |-> IF n \in {1, 6, 11, 16} THEN Float(1, 1) ELSE Float(0, 1)]

\* A logical point as floats.
Point(x, y) == <<Float(x, 1), Float(y, 1)>>

NonDegenerate == m_left # m_right /\ m_bottom # m_top

\* C13: for a range with left # right and bottom # top, the projection matrix
\* stored by setScreen maps (left, bottom) to (-1, -1) and (right, top) to
\* (1, 1) in normalised device coordinates (the model matrix the identity).
C13_CornersToNDC ==
    (last.op = "setScreen" /\ NonDegenerate)
        => /\ Transform(m_projection, Identity4, Point(m_left, m_bottom)) = Point(-1, -1)
           /\ Transform(m_projection, Identity4, Point(m_right, m_top)) = Point(1, 1)

\* The screen-size quad's vertices in normalised device coordinates.
QuadNDC == [i \in 1..Len(m_ssq) |-> Transform(m_projection, Identity4, m_ssq[i])]

Corners == {Point(-1, -1), Point(1, -1), Point(1, 1), Point(-1, 1)}

\* C14 as stated: for a range with left # right and bottom # top, reversed
\* or not, the six vertices of the screen-size quad times the projection
\* matrix of the same call are exactly corners of the square [-1,1] x [-1,1];
\* the two triangles are each three distinct corners, and share exactly the
\* two ends of a diagonal, so together they cover the square.
C14_QuadCoversViewport ==
    (object = "alive" /\ NonDegenerate)
        => /\ Len(m_ssq) = 6
           /\ \A i \in 1..6 : QuadNDC[i] \in Corners
           /\ LET first  == {QuadNDC[i] : i \in 1..3}
                  second == {QuadNDC[i] : i \in 4..6}
              IN  /\ Cardinality(first) = 3 /\ Cardinality(second) = 3
                  /\ first \cup second = Corners
                  /\ \A p \in first \cap second, q \in first \cap second :
                        p # q => (p[1] # q[1] /\ p[2] # q[2])

\* The largest float below 1: 1 - 2^-24.
BelowOne == Dyadic(16777215, -24)

\* The corners of the square [-cx, cx] x [-cy, cy].
CornersOf(cx, cy) ==
    {<<[cx EXCEPT !.num = i * cx.num], [cy EXCEPT !.num = j * cy.num]>> : i, j \in {-1, 1}}

\* The sizes up to which (2/s) * (s/2) is 1 in float arithmetic.
ExactSize(s) == Abs(s) <= 40

\* C14: for a range with left # right and bottom # top, reversed or not, the
\* six vertices of the screen-size quad times the projection matrix of the
\* same call are corners of the square [-cx, cx] x [-cy, cy], where cx and cy
\* are each 1 or the float next below 1 (1 - 2^-24), and are 1 whenever the
\* range's width and height are at most 40 in magnitude; the two triangles
\* are each three distinct corners, and share exactly the two ends of a
\* diagonal, so together they cover that square.
C14_QuadCoversRoundedViewport ==
    (object = "alive" /\ NonDegenerate)
        => /\ Len(m_ssq) = 6
           /\ \E cx, cy \in {Float(1, 1), BelowOne} :
                 /\ ExactSize(m_right - m_left) => cx = Float(1, 1)
                 /\ ExactSize(m_top - m_bottom) => cy = Float(1, 1)
                 /\ \A i \in 1..6 : QuadNDC[i] \in CornersOf(cx, cy)
                 /\ LET first  == {QuadNDC[i] : i \in 1..3}
                        second == {QuadNDC[i] : i \in 4..6}
                    IN  /\ Cardinality(first) = 3 /\ Cardinality(second) = 3
                        /\ first \cup second = CornersOf(cx, cy)
                        /\ \A p \in first \cap second, q \in first \cap second :
                              p # q => (p[1] # q[1] /\ p[2] # q[2])

\* setScreen stored a reversed range 41 wide and its quad: the quad's corners
\* are one unit in the last place inside the viewport's in x, on them in y.
C14_Witness ==
    /\ last.op = "setScreen"
    /\ m_left = 41 /\ m_right = 0 /\ m_bottom = 1 /\ m_top = 0
    /\ Len(m_ssq) = 6
    /\ {QuadNDC[i] : i \in 1..6} = CornersOf(BelowOne, Float(1, 1))


\* A whole call made and returned in one step.
CallOf(op) == pc = "idle" /\ pc' = "idle" /\ last'.op = op

\* C15: after the constructor has returned no step of any operation changes
\* the palette: its length and every RGBA entry stay what they were.
C15_PaletteFixed ==
    [][ (object = "alive" /\ object' = "alive")
           => /\ Len(m_palette') = Len(m_palette)
              /\ \A i \in 1..Len(m_palette) : m_palette'[i] = m_palette[i] ]_vars

\* setScreenSize, shade, a drawing call and a presented frame have all
\* happened, and the palette is the constructor's.
C15_Witness ==
    /\ pc = "idle" /\ last.op = "drawPixels" /\ last.ret = "void"
    /\ m_width = 10 /\ screen = "shaded"
    /\ InBounds(m_clearColor, Len(m_palette))
    /\ m_palette = [i \in 1..MaxPalette |-> PaletteEntry(i)]

\* C16: a step that is not a whole setScreen call (setScreenSize,
\* setScreenPosition, shade, a drawing call, any step of update) leaves the
\* range left, right, bottom, top and the projection matrix unchanged.
C16_OnlySetScreenMovesRange ==
    [][ ~CallOf("setScreen")
           => UNCHANGED <<m_left, m_right, m_bottom, m_top, m_projection>> ]_vars

\* setScreenSize has returned on a window whose range setScreen had moved
\* away from the pixel range: the size is new, the range is setScreen's.
C16_Witness ==
    /\ pc = "idle" /\ last.op = "setScreenSize"
    /\ m_width = 10 /\ m_height = 7
    /\ <<m_left, m_right, m_bottom, m_top>> = <<2, 1, 0, -2>>
    /\ m_projection = Projection(2, 1, 0, -2)

(* ----------------------- claims: library and resources ----------------- *)

\* The calls of name in the library log that succeeded.
Succeeded(log, name) == Len(SelectSeq(log, LAMBDA x : x[1] = name /\ x[2]))

InitFailures == {"Failed to initialize OpenGL!", "Failed to initialize audio engine!"}

\* C17: over any sequence of constructions, failing ones included, the audio
\* engine is initialised at most once, the windowing library is not left
\* initialised by a construction that failed in the initialisation, and when
\* the process has ended a windowing library that was initialised has been
\* terminated exactly once.
C17_InitOnceAndTerminated ==
    /\ Succeeded(libLog, "ma_engine_init") <= 1
    /\ (last.op = "Window" /\ last.ret \in InitFailures) => (~glfwUp /\ ~audioUp)
    /\ status = "exited"
          => /\ ~glfwUp /\ ~audioUp
             /\ Succeeded(libLog, "glfwTerminate")
                   = (IF Succeeded(libLog, "glfwInit") > 0 THEN 1 ELSE 0)

\* Positions in a trace.
Positions(trace, cmd) == {i \in 1..Len(trace) : trace[i][1] = cmd}

\* C18: the destructor releases the framebuffer, the screen-quad shader, both
\* quad meshes and every cached texture, each before glfwDestroyWindow.
C18_ReleasedBeforeContext ==
    last.op = "~Window"
        => /\ Count(last.trace, "glfwDestroyWindow") = 1
           /\ ArgsOf(last.trace, "release")
                 = <<"m_shadeFbo", "m_ssqShader", "m_ssq", "m_sprite">>
           /\ Len(ArgsOf(last.trace, "~Texture")) = Len(last.arg)
           /\ {ArgsOf(last.trace, "~Texture")[i] : i \in 1..Len(last.arg)}
                 = {last.arg[i] : i \in 1..Len(last.arg)}
           /\ \A i \in Positions(last.trace, "release") \cup Positions(last.trace, "~Texture") :
                 i < FirstPos(last.trace, "glfwDestroyWindow")


(* ------------------------- claims: frames ------------------------------ *)

\* What update() does after its entry check.
FrameEffects ==
    {"quad::render", "glBindTexture", "glfwSwapBuffers", "glFinish", "glReadPixels",
     "stbi_write_png", "m_palette[]", "glClearColor", "glClear"}

\* C20: an update() that finds the close flag set at the end of its entry
\* check returns -1 having made the context current and polled once and
\* nothing else: no blit, swap, screenshot or clear is issued, the pending
\* screenshot name, the previous-key snapshot, the current keys, the
\* off-screen buffer and the screen are what they were.
C20_EntryCloseNoEffect ==
    [][ (pc = "update.entryPoll" /\ pc' # pc /\ closeFlag)
           => /\ pc' = "idle" /\ last'.op = "update" /\ last'.ret = -1
              /\ Len(last'.trace) = 2
              /\ Count(last'.trace, "glfwMakeContextCurrent") = 1
              /\ Count(last'.trace, "glfwPollEvents") = 1
              /\ \A cmd \in FrameEffects : Count(last'.trace, cmd) = 0
              /\ UNCHANGED <<m_screenshotFileName, m_prevKeys, m_curKeys, m_shadeFbo,
                             screen, closeFlag, status>>
              /\ ConfigUnchanged ]_vars

\* update() has returned -1 from its entry check with a screenshot still
\* pending and a key press of its poll not yet copied to the snapshot.
C20_Witness ==
    /\ pc = "idle" /\ last.op = "update" /\ last.ret = -1
    /\ Len(last.trace) = 2
    /\ m_screenshotFileName = "a.png"
    /\ getKeyPressed(65)
    /\ closeFlag


\* C19: what shade() renders is shown in exactly one frame. The step of
\* update() that passes the entry check puts the off-screen buffer's content
\* on the screen: it blits, then swaps, then clears the back buffer to the
\* palette colour at the background index with alpha 1 and the off-screen
\* buffer to transparent black, leaving the off-screen buffer empty whatever
\* the final poll finds; only shade() and that step change the off-screen
\* buffer, so an update() with no shade() since the last one blits an empty
\* buffer. With a background index inside the palette the step always
\* reaches the clears.
C19_ShadePresentedOnce ==
    [][ /\ UpdatePasses
           => /\ screen' = m_shadeFbo
              /\ InBounds(m_clearColor, Len(m_palette)) => pc' = "update.finalPoll"
              /\ pc' = "update.finalPoll" => m_shadeFbo' = "clear"
              /\ Count(last'.trace, "quad::render") = 1
              /\ Count(last'.trace, "glfwSwapBuffers") = 1
              /\ FirstPos(last'.trace, "quad::render") < FirstPos(last'.trace, "glfwSwapBuffers")
              /\ pc' = "update.finalPoll"
                    => /\ FirstPos(last'.trace, "glfwSwapBuffers")
                             < FirstPos(last'.trace, "glClearColor")
                       /\ Count(last'.trace, "glClearColor") = 2
                       /\ ArgsOf(last'.trace, "glClearColor")[2]
                             = [r |-> 0, g |-> 0, b |-> 0, a |-> 0]
                       /\ InBounds(m_clearColor, Len(m_palette))
                             => ArgsOf(last'.trace, "glClearColor")[1]
                                   = [m_palette[m_clearColor + 1] EXCEPT !.a = 255]
                       /\ ArgsOf(last'.trace, "glClear") = <<"back", "m_shadeFbo">>
        /\ (pc = "update.finalPoll" /\ pc' = "idle") => m_shadeFbo' = "clear"
        /\ (m_shadeFbo' # m_shadeFbo) => (UpdatePasses \/ CallOf("shade"))
        /\ (screen' # screen) => UpdatePasses
        /\ (UpdatePasses /\ m_shadeFbo = "clear") => screen' = "clear" ]_vars

\* update() has returned after presenting what shade() rendered: it is on
\* the screen and the off-screen buffer is empty.
C19_Witness ==
    /\ pc = "idle" /\ last.op = "update"
    /\ screen = "shaded" /\ m_shadeFbo = "clear"
    /\ InBounds(m_clearColor, Len(m_palette))


(* --------------------------- claims: key edges ------------------------- *)

\* C21: right after an update() that has passed its entry check, every key
\* for which its final poll delivered no event is reported neither pressed
\* nor released, whatever was reported before that update().
C21_KeyEdgesOneFrame ==
    (pc = "idle" /\ last.op = "update" /\ Count(last.trace, "glfwSwapBuffers") = 1)
        => \A k \in Keys \ polled : ~getKeyPressed(k) /\ ~getKeyReleased(k)

\* update() has returned 0 with the ordinary key held down since before its
\* final poll, which brought an Escape release only: the key is down and no
\* longer reported as pressed.
C21_Witness ==
    /\ pc = "idle" /\ last.op = "update" /\ last.ret = 0
    /\ polled = {GLFW_KEY_ESCAPE}
    /\ getKeyState(65) /\ ~getKeyPressed(65)
    /\ InBounds(m_clearColor, Len(m_palette))


(* ------------------------- claims: texture cache ----------------------- *)

\* C22: while the window lives no step removes or replaces an entry of the
\* cache, and loadTexture(f) for a file that has an entry returns that entry's
\* texture without decoding the file or creating a texture.
C22_LoadTextureIdempotent ==
    [][ /\ object' = "alive"
           => \A f \in DOMAIN m_textures :
                 f \in DOMAIN m_textures' /\ m_textures'[f] = m_textures[f]
        /\ (CallOf("loadTexture") /\ last'.arg[1] \in DOMAIN m_textures)
           => /\ last'.ret = m_textures[last'.arg[1]]
              /\ last'.ret # 0
              /\ Count(last'.trace, "stbi_load") = 0
              /\ Count(last'.trace, "Texture") = 0
              /\ m_textures' = m_textures ]_vars

\* loadTexture("a.png") has been answered from the cache, with both files
\* cached and a frame presented since the window was built.
C22_Witness ==
    /\ pc = "idle" /\ last.op = "loadTexture" /\ last.arg[1] = "a.png"
    /\ Len(last.trace) = 0 /\ last.ret = m_textures["a.png"]
    /\ DOMAIN m_textures = {"a.png", "b.png"}
    /\ screen # "none"

\* C23: loadTexture(f) for a file that has no entry and cannot be decoded
\* tries the decode once, returns the null texture, fails nothing and leaves
\* the cache as it was; the cache never holds a null texture; and every
\* loadTexture(f) for a file with no entry tries the decode.
C23_DecodeFailure ==
    [][ /\ (CallOf("loadTexture") /\ last'.arg[1] \notin DOMAIN m_textures)
           => /\ Count(last'.trace, "stbi_load") = 1
              /\ ~last'.arg[2]
                    => /\ last'.ret = 0
                       /\ m_textures' = m_textures
                       /\ status' = "running" /\ last'.failAt = 0
                       /\ Count(last'.trace, "Texture") = 0
        /\ \A f \in DOMAIN m_textures' : m_textures'[f] # 0 ]_vars

\* loadTexture("a.png") has tried the decode, failed and returned null,
\* with the other file cached and no entry for "a.png".
C23_Witness ==
    /\ pc = "idle" /\ last.op = "loadTexture" /\ last.arg = <<"a.png", FALSE>>
    /\ last.ret = 0 /\ Count(last.trace, "stbi_load") = 1
    /\ DOMAIN m_textures = {"b.png"}


(* ------------------------ claims: texture sizes ------------------------ *)

MapCalls == {"drawPixels", "drawRGB", "drawHeatMap", "drawSprite"}

\* The Texture built by the drawing call last made.
BuiltTexture == ArgsOf(last.trace, "Texture")[1]

\* C24: when drawPixels, drawRGB(map), drawHeatMap or drawSprite(Grid) has
\* passed its two non-zero assertions and built its texture, the width and
\* the height handed to the texture are at least 1 and 4 * width * height
\* is at most the number of bytes in the buffer handed over with them.
C24_TextureWithinBuffer ==
    (last.op \in MapCalls /\ Count(last.trace, "Texture") = 1)
        => /\ BuiltTexture.width >= 1
           /\ BuiltTexture.height >= 1
           /\ 4 * BuiltTexture.width * BuiltTexture.height <= Len(BuiltTexture.data)


\* C26: drawSprite on a Grid with no rows fails no assertion, looks nothing
\* up in the palette and draws the sprite with a texture of width 1 and
\* height 1 whose four bytes are 255, 255, 255, 255; on a Grid with one or
\* more rows and no cells it fails the assertion on the map's width, with no
\* texture or shader created and nothing drawn.
C26_SpriteZeroRows ==
    /\ (last.op = "drawSprite" /\ Len(pixels.rows) = 0)
          => /\ status = "running" /\ last.failAt = 0
             /\ Count(last.trace, "m_palette[]") = 0
             /\ Count(last.trace, "Texture") = 1
             /\ BuiltTexture = [width |-> 1, height |-> 1, nrChannels |-> 4,
                                data |-> <<255, 255, 255, 255>>]
             /\ Count(last.trace, "Shader") = 1
             /\ Count(last.trace, "quad::render") = 1
    /\ (last.op = "drawSprite" /\ Len(pixels.rows) >= 1 /\ GridCells = <<>>)
          => /\ status = "aborted" /\ last.failAt = 1355
             /\ NoTextureNoDraw

\* drawSprite has returned from drawing a Grid with no rows.
C26_Witness ==
    /\ last.op = "drawSprite" /\ last.ret = "void"
    /\ pixels.type = "Grid" /\ Len(pixels.rows) = 0
    /\ Count(last.trace, "quad::render") = 1

(* ------------------ claims: two windows and the context ---------------- *)

\* The recorded calls that need no graphics context: window system, image
\* file, audio and plain memory.
HostCalls ==
    {"glfwInit", "glfwTerminate", "glfwCreateWindow", "glfwDestroyWindow",
     "glfwMakeContextCurrent", "glfwSetWindowUserPointer", "glfwSetKeyCallback",
     "glfwGetFramebufferSize", "glfwPollEvents", "glfwSwapBuffers", "glfwSetWindowSize",
     "glfwSetWindowPos", "stbi_load", "stbi_image_free", "stbi_write_png",
     "ma_engine_init", "ma_engine_uninit", "m_palette[]"}

\* The positions in trace of the graphics commands and resource creations and
\* releases made while a context other than own's was current, c being the
\* context current before the first call.
OffContext(trace, c, own) ==
    {i \in 1..Len(trace) :
        /\ trace[i][1] \notin HostCalls
        /\ ContextAfter(SubSeq(trace, 1, i - 1), c) # own}

\* The window the call just made was made on.
Callee == IF last'.op = "~Window" THEN m_window ELSE m_window'

\* C25: with two live Window objects on one thread, every call on either of
\* them -- loadTexture and the destructor included -- issues its graphics
\* commands and creates and releases its GPU resources while the context of
\* the window it was called on is current, whatever calls came before.
C25_OwnContextCurrent ==
    [][(object = "alive" /\ other.object = "alive" /\ ~Select)
           => OffContext(last'.trace, ctx, Callee) = {}]_vars

====
